---- MODULE Spec2Model ----
(***************************************************************************)
(* A model of encoda's codec dispatch (src/src/index.ts: match, decode,    *)
(* encode, convert) and of the module-level state of the HTML codec        *)
(* (slugger, MathJax promise list, urlRegex) under cooperative scheduling. *)
(*                                                                         *)
(* Strings are TLA+ strings; Len, SubSeq and \o are applied to them the    *)
(* way the JavaScript code indexes, slices and concatenates them.          *)
(***************************************************************************)
EXTENDS Integers, Sequences, FiniteSets, TLC

(***************************************************************************)
(* JavaScript values                                                       *)
(***************************************************************************)

\* The JavaScript value undefined (a string no input contains).
undefined == "<undefined>"

\* JavaScript truthiness of an optional string: neither undefined nor ''.
Truthy(s) == s # undefined /\ s # ""

CharAt(s, i) == SubSeq(s, i, i)

\* String.prototype.includes for a one-character needle.
includes(s, ch) == \E i \in 1..Len(s) : CharAt(s, i) = ch

\* String.prototype.startsWith.
startsWith(s, p) == Len(s) >= Len(p) /\ SubSeq(s, 1, Len(p)) = p

\* Index of the last occurrence of ch in s, 0 if there is none.
LastIndexOf(s, ch) ==
    LET hits == {i \in 1..Len(s) : CharAt(s, i) = ch}
    IN  IF hits = {} THEN 0 ELSE CHOOSE i \in hits : \A j \in hits : j <= i

UpperChars == "ABCDEFGHIJKLMNOPQRSTUVWXYZ"
LowerChars == "abcdefghijklmnopqrstuvwxyz"
DigitChars == "0123456789"

lowerChar(c) ==
    IF \E i \in 1..Len(UpperChars) : CharAt(UpperChars, i) = c
    THEN CharAt(LowerChars, CHOOSE i \in 1..Len(UpperChars) : CharAt(UpperChars, i) = c)
    ELSE c

\* String.prototype.toLowerCase.
RECURSIVE toLowerCase(_)
toLowerCase(s) ==
    IF Len(s) = 0 THEN ""
    ELSE lowerChar(CharAt(s, 1)) \o toLowerCase(SubSeq(s, 2, Len(s)))

\* path.basename: what follows the last '/'.
basename(p) == SubSeq(p, LastIndexOf(p, "/") + 1, Len(p))

\* path.extname: from the last '.' of the base name, '' when the base name
\* has no '.' or only a leading one.
extname(p) ==
    LET b == basename(p)
        d == LastIndexOf(b, ".")
    IN  IF d <= 1 THEN "" ELSE SubSeq(b, d, Len(b))

\* The extension table of the mime package, restricted to the extensions
\* the inputs of the model use.
mimeTypes ==
    [md |-> "text/markdown", html |-> "text/html", txt |-> "text/plain",
     tex |-> "application/x-tex"]

\* mime.getType(path) || undefined
mimeGetType(p) ==
    LET last    == toLowerCase(basename(p))
        ext     == SubSeq(last, LastIndexOf(last, ".") + 1, Len(last))
        hasPath == Len(last) < Len(p)
        hasDot  == Len(ext) < Len(last) - 1
    IN  IF (hasDot \/ ~hasPath) /\ ext \in DOMAIN mimeTypes
        THEN mimeTypes[ext] ELSE undefined

\* vfile.isPath: does the string look like a file path rather than content.
isPath(content) ==
    \/ startsWith(content, "/")
    \/ startsWith(content, "./")
    \/ startsWith(content, "../")

(***************************************************************************)
(* The registry                                                            *)
(***************************************************************************)

codecList ==
    << "elife", "doi", "orcid", "plos",
       "http",
       "dir", "dar",
       "csv", "ods", "tdp", "xlsx",
       "docx", "gdoc", "html", "ipynb", "jats", "jats-pandoc", "latex", "md",
       "odt", "pdf", "txt", "xmd",
       "dmagic",
       "rpng",
       "yaml", "pandoc", "json5", "jsonld", "json" >>

(***************************************************************************)
(* State                                                                   *)
(***************************************************************************)

VARIABLES
    modules,      \* what import(`./codecs/${name}`) yields, per module of VarModules
    stack,        \* the calls of index.ts in progress, outermost first (match
                  \* under decode or encode is tracked by mpc alone)
    margs,        \* the arguments of the match call in progress
    mpc,          \* position in match: idle, fast, loop, fallback, done
    fileName,     \* match's local fileName
    extName,      \* match's local extName
    mediaType,    \* match's local mediaType
    codec,        \* match's local codec
    idx,          \* index of the for loop over codecList
    matchedBy,    \* the test that made match return, "" if none did
    testsRun,     \* number of file name/extension/media type/sniff tests evaluated
    fallbackWarns,\* the 'No codec could be found ...' warnings logged by this call
    loadWarns,    \* warnings logged by handleGetCodecError in this call
    result,       \* what the match call resolved to, or "<raised>"
    prev,         \* a remembered earlier match call: its arguments and result
    cargs,        \* the arguments of the convert call in progress
    phases,       \* the phases the convert call has completed, in order
    outputFile,   \* the VFile codec.encode resolved to
    written,      \* the paths vfile.write has written
    outcome       \* how the last call of index.ts ended and what it returned

matchVars ==
    << margs, mpc, fileName, extName, mediaType, codec, idx, matchedBy,
       testsRun, fallbackWarns, loadWarns, result >>

convertVars == << cargs, phases, outputFile, written >>

\* The module-level state of the HTML codec and its encode calls.
VARIABLES
    slugger,         \* slugger.occurrences: slug -> number of repetitions
    mathJaxPromises, \* the module-level list of typesetting promises
    promiseState,    \* per promise ever created: pending, rendered or failed
    lastIndex,       \* urlRegex.lastIndex (the regex has the g flag)
    hpc,             \* per encode call: idle, fromFiles, finish, standalone, returned, rejected
    hnode,           \* per encode call: the node (a list of nodes) to encode
    hopts,           \* per encode call: isBundle and isStandalone
    dom,             \* per encode call: the elements the tree walk built
    own,             \* per encode call: the promises its tree walk pushed
    awaited,         \* per encode call: the promises its mathJaxFinish awaits
    html,            \* per encode call: the HTML it returned
    calls,           \* number of HTMLCodec.encode calls made
    hprev            \* a remembered earlier encode call: node, options, HTML

\* One pass of a node through the HTML codec: encode, the HTML parsed again,
\* decode.
VARIABLES
    tpc,             \* idle, encoded (there is a document to decode), decoded, threw
    tnode,           \* the node given to encode
    tdoc,            \* the body of the document decode is given: its child nodes
    tout,            \* the node decode returned
    tlog             \* the log entries written by the pass

tripVars == << tpc, tnode, tdoc, tout, tlog >>

\* One decode call of the ipynb codec.
VARIABLES
    npc,             \* idle, cells (in the loop of decodeCells), outputs
                     \* (suspended at Promise.all of decodeOutputs), done
    ncells,          \* the cells of the notebook
    ncell,           \* index of the for loop over the cells
    blocks,          \* decodeCells' local blocks
    nout             \* per output of the code cell at hand: the value its
                     \* decode resolved to, or Pending

ipynbVars == << npc, ncells, ncell, blocks, nout >>

\* The encode calls of the PDF codec, one at a time.
VARIABLES
    ppc,             \* idle, bundle, dump, page, setContent, pdf, close (the
                     \* await the call is suspended at), returned, rejected
    ppage,           \* the page this call opened, 0 when it has opened none
    openPages,       \* the browser pages that are open
    pcalls           \* number of encode calls made

pdfVars == << ppc, ppage, openPages, pcalls >>

htmlVars ==
    << slugger, mathJaxPromises, promiseState, lastIndex, hpc, hnode, hopts,
       dom, own, awaited, html, calls, hprev, tripVars >>


(***************************************************************************)
(* Codec modules                                                           *)
(***************************************************************************)

\* Outcomes of getCodec(name): an instance of the module's Codec class, no
\* exported class that extends Codec, or the import throwing.
LoadOutcomes == {"OK", "NO_CODEC", "MODULE_NOT_FOUND", "ERROR"}

Descriptor(load, fileNames, extNames, mediaTypes, sniff) ==
    [load |-> load, fileNames |-> fileNames, extNames |-> extNames,
     mediaTypes |-> mediaTypes, sniff |-> sniff]

\* A module that loads and declares nothing the inputs of the model match.
Plain == Descriptor("OK", {}, {}, {}, {})

\* class HTMLCodec: mediaTypes only.
HTMLCodec == Descriptor("OK", {}, {}, {"text/html"}, {})

\* class LatexCodec: mediaTypes and extNames.
LatexCodec == Descriptor("OK", {}, {"latex", "tex"}, {"application/x-latex"}, {})

\* The pdf module exports mediaTypes, decode and encode, and no Codec class.
pdfModule == Descriptor("NO_CODEC", {}, {}, {}, {})

\* The descriptors the environment may give a module whose source is not
\* fixed by the model: absent, failing to load, without a Codec class, or
\* loading with one kind of declaration.
Profiles ==
    { Descriptor("MODULE_NOT_FOUND", {}, {}, {}, {}),
      Descriptor("ERROR", {}, {}, {}, {}),
      Descriptor("NO_CODEC", {}, {}, {}, {}),
      Plain,
      Descriptor("OK", {"a.MD"}, {}, {}, {}),
      Descriptor("OK", {}, {"md", "tex"}, {}, {}),
      Descriptor("OK", {}, {}, {"text/html", "text/markdown"}, {}),
      Descriptor("OK", {}, {}, {}, {"hello", "./b.tex"}) }

\* The registry entries whose descriptor the environment chooses.
VarModules == {"elife", "http", "md"}

Range(f) == {f[i] : i \in DOMAIN f}

FixedModule(name) ==
    CASE name = "html"  -> HTMLCodec
      [] name = "latex" -> LatexCodec
      [] name = "pdf"   -> pdfModule
      [] OTHER          -> Plain

\* The environments: a descriptor for every module of VarModules.
Environments == [VarModules -> Profiles]

\* The module ./codecs/<name>; a name outside the registry has no module.
Module(name) ==
    IF name \in VarModules THEN modules[name]
    ELSE IF name \in Range(codecList) THEN FixedModule(name)
    ELSE Descriptor("MODULE_NOT_FOUND", {}, {}, {}, {})

\* The inputs of match.
Contents == {undefined, "./a.MD", "./b.tex", "hello"}
Formats  == {undefined, "md", "text/html"}

(***************************************************************************)
(* match                                                                   *)
(***************************************************************************)

\* String.prototype.slice(1)
slice1(s) == SubSeq(s, 2, Len(s))

\* The values match derives from the content path and the format.
Resolve(content, format, isOutput) ==
    LET derived == Truthy(content) /\ (isPath(content) \/ isOutput)
        fileName0  == IF derived THEN basename(content) ELSE undefined
        extName0   == IF derived THEN toLowerCase(slice1(extname(content)))
                      ELSE undefined
        mediaType0 == IF derived THEN mimeGetType(content) ELSE undefined
    IN  IF Truthy(format)
        THEN IF includes(format, "/")
             THEN [fileName |-> fileName0, extName |-> extName0,
                   mediaType |-> format]
             ELSE [fileName |-> fileName0, extName |-> format,
                   mediaType |-> mimeGetType(format)]
        ELSE [fileName |-> fileName0, extName |-> extName0,
              mediaType |-> mediaType0]

\* The value of `codec` after `try { codec = await getCodec(name) } catch ...`:
\* the new instance, undefined when the module exports no Codec class, and
\* the old value when the import throws.
getCodec(name, old) ==
    LET load == Module(name).load
    IN  CASE load = "OK"       -> name
          [] load = "NO_CODEC" -> undefined
          [] OTHER             -> old

\* handleGetCodecError logs every error but MODULE_NOT_FOUND.
handleGetCodecError(name) == IF Module(name).load = "ERROR" THEN 1 ELSE 0

\* The four tests of one loop iteration, in the order the code tries them.
TestNames == << "fileName", "extName", "mediaType", "sniff" >>

Tests(c, content, fn, en, mt) ==
    LET d == Module(c)
    IN  << Truthy(fn) /\ fn \in d.fileNames,
           Truthy(en) /\ en \in d.extNames,
           Truthy(mt) /\ mt \in d.mediaTypes,
           Truthy(content) /\ content \in d.sniff >>

\* The first test of ts that succeeds, 0 if none does.
FirstSuccess(ts) ==
    IF \E k \in 1..4 : ts[k]
    THEN CHOOSE k \in 1..4 : ts[k] /\ \A j \in 1..(k - 1) : ~ts[j]
    ELSE 0

\* `codec` is not initialised by the call: it keeps the value an earlier
\* call left in it.
MatchBeginKeepsCodec(content, format, isOutput) ==
    LET r == Resolve(content, format, isOutput)
    IN  /\ margs' = [content |-> content, format |-> format, isOutput |-> isOutput]
        /\ fileName' = r.fileName
        /\ extName' = r.extName
        /\ mediaType' = r.mediaType
        /\ codec' = codec
        /\ idx' = 1
        /\ matchedBy' = ""
        /\ testsRun' = 0
        /\ fallbackWarns' = << >>
        /\ loadWarns' = 0
        /\ result' = undefined
        /\ mpc' = "fast"

\* match is called: the locals are initialised and the values resolved.
MatchBegin(content, format, isOutput) ==
    LET r == Resolve(content, format, isOutput)
    IN  /\ margs' = [content |-> content, format |-> format, isOutput |-> isOutput]
        /\ fileName' = r.fileName
        /\ extName' = r.extName
        /\ mediaType' = r.mediaType
        /\ codec' = undefined
        /\ idx' = 1
        /\ matchedBy' = ""
        /\ testsRun' = 0
        /\ fallbackWarns' = << >>
        /\ loadWarns' = 0
        /\ result' = undefined
        /\ mpc' = "fast"

\* The fast path loads the module and goes on to the registry loop
\* without returning it.
MatchFastNoReturn ==
    /\ mpc = "fast"
    /\ codec' = IF extName # undefined THEN getCodec(extName, codec) ELSE codec
    /\ loadWarns' = loadWarns
          + (IF extName # undefined THEN handleGetCodecError(extName) ELSE 0)
    /\ mpc' = "loop"
    /\ result' = result
    /\ UNCHANGED << htmlVars, modules, pdfVars, ipynbVars, stack, prev, convertVars, outcome, margs,
                    fileName, extName, mediaType, idx, matchedBy, testsRun,
                    fallbackWarns >>

\* The fast path: load the module named like the extension.
MatchFast ==
    /\ mpc = "fast"
    /\ LET c == IF extName # undefined THEN getCodec(extName, codec) ELSE codec
           w == IF extName # undefined THEN handleGetCodecError(extName) ELSE 0
       IN  /\ codec' = c
           /\ loadWarns' = loadWarns + w
           /\ IF c # undefined
              THEN /\ mpc' = "done"
                   /\ result' = c
              ELSE /\ mpc' = "loop"
                   /\ result' = result
    /\ UNCHANGED << htmlVars, modules, pdfVars, ipynbVars, stack, prev, convertVars, outcome, margs, fileName, extName, mediaType,
                    idx, matchedBy, testsRun, fallbackWarns >>

\* One iteration of `for (const codecName of codecList)`.
MatchLoop ==
    /\ mpc = "loop"
    /\ idx <= Len(codecList)
    /\ LET name == codecList[idx]
           c    == getCodec(name, codec)
           ts   == Tests(c, margs.content, fileName, extName, mediaType)
           k    == FirstSuccess(ts)
       IN  /\ codec' = c
           /\ loadWarns' = loadWarns + handleGetCodecError(name)
           /\ IF c = undefined
              THEN \* if (!codec) break
                   /\ mpc' = "fallback"
                   /\ UNCHANGED << idx, matchedBy, testsRun, result >>
              ELSE IF k # 0
              THEN /\ mpc' = "done"
                   /\ result' = c
                   /\ matchedBy' = TestNames[k]
                   /\ testsRun' = testsRun + k
                   /\ idx' = idx
              ELSE /\ mpc' = IF idx = Len(codecList) THEN "fallback" ELSE "loop"
                   /\ idx' = idx + 1
                   /\ testsRun' = testsRun + 4
                   /\ UNCHANGED << matchedBy, result >>
    /\ UNCHANGED << htmlVars, modules, pdfVars, ipynbVars, stack, prev, convertVars, outcome, margs, fileName, extName, mediaType,
                    fallbackWarns >>

\* The text of the warning logged before falling back.
FallbackMessage(content, format) ==
    "No codec could be found"
        \o (IF Truthy(content) THEN " for content \"" \o content \o "\"" ELSE "")
        \o (IF Truthy(format) THEN " for format \"" \o format \o "\"" ELSE "")
        \o ". Falling back to plain text codec."

\* The fallback throws instead of degrading to plain text.
MatchFallbackThrows ==
    /\ mpc = "fallback"
    /\ fallbackWarns' = fallbackWarns
    /\ result' = "<raised>"
    /\ mpc' = "done"
    /\ UNCHANGED << htmlVars, modules, pdfVars, ipynbVars, stack, prev, convertVars, outcome, margs,
                    fileName, extName, mediaType, codec, idx, matchedBy,
                    testsRun, loadWarns >>

\* No handler matched: warn and return the plain text codec.
MatchFallback ==
    /\ mpc = "fallback"
    /\ fallbackWarns' = Append(fallbackWarns, FallbackMessage(margs.content, margs.format))
    /\ LET load == Module("txt").load
       IN  result' = CASE load = "OK"       -> "txt"
                       [] load = "NO_CODEC" -> undefined
                       [] OTHER             -> "<raised>"
    /\ mpc' = "done"
    /\ UNCHANGED << htmlVars, modules, pdfVars, ipynbVars, stack, prev, convertVars, outcome, margs, fileName, extName, mediaType,
                    codec, idx, matchedBy, testsRun, loadWarns >>

(***************************************************************************)
(* decode, encode, convert                                                 *)
(***************************************************************************)

Top == IF stack = << >> THEN "" ELSE stack[Len(stack)]

NoArgs == [input |-> undefined, outputPath |-> undefined,
           to |-> undefined, from |-> undefined]

NoFile == [contents |-> undefined, path |-> undefined]

Running == [status |-> "running", value |-> undefined]

\* What codec.encode can resolve to: a file with contents, a file with
\* empty contents, or (codecs that only write to disk) a file with a path
\* and no contents.
EncodedFiles(filePath) ==
    { [contents |-> "text", path |-> undefined],
      [contents |-> "", path |-> undefined],
      [contents |-> undefined, path |-> filePath] }

NoMatchArgs == [content |-> undefined, format |-> undefined, isOutput |-> FALSE]

\* The match call is over: its locals are gone.
MatchEnd ==
    /\ margs' = NoMatchArgs
    /\ fileName' = undefined
    /\ extName' = undefined
    /\ mediaType' = undefined
    /\ codec' = codec
    /\ idx' = 1
    /\ matchedBy' = ""
    /\ testsRun' = 0
    /\ fallbackWarns' = << >>
    /\ loadWarns' = 0
    /\ result' = undefined
    /\ mpc' = "idle"

\* vfile.dump(file): the contents of the file as a string.
vfileDump(file) == IF file.contents # undefined THEN file.contents ELSE ""

\* outputFile.contents ? vfile.dump(outputFile) : outputFile.path
ConvertValue(file) ==
    IF Truthy(file.contents) THEN vfileDump(file) ELSE file.path

\* match(content, format, isOutput) called from outside index.ts.
CallMatch(content, format, isOutput) ==
    /\ stack = << >>
    /\ stack' = << "match" >>
    /\ outcome' = Running
    /\ MatchBegin(content, format, isOutput)
    /\ UNCHANGED << htmlVars, modules, pdfVars, ipynbVars, prev, convertVars >>

\* match returns to an outside caller.
MatchReturn ==
    /\ stack = << "match" >>
    /\ mpc = "done"
    /\ stack' = << >>
    /\ MatchEnd
    /\ outcome' = IF result = "<raised>"
                  THEN [status |-> "threw", value |-> undefined]
                  ELSE [status |-> "returned", value |-> result]
    /\ UNCHANGED << htmlVars, modules, pdfVars, ipynbVars, prev, convertVars >>

\* match returns to an outside caller that keeps the arguments and the codec
\* it got, to compare them with those of a later call.
MatchReturnRemember ==
    /\ stack = << "match" >>
    /\ mpc = "done"
    /\ result # "<raised>"
    /\ stack' = << >>
    /\ MatchEnd
    /\ outcome' = [status |-> "returned", value |-> result]
    /\ prev' = [set |-> TRUE, args |-> margs, result |-> result]
    /\ UNCHANGED << htmlVars, modules, pdfVars, ipynbVars, convertVars >>

\* handled(content, format): try { await match(content, format) ...
CallHandled(content, format) ==
    /\ stack = << >>
    /\ stack' = << "handled" >>
    /\ outcome' = Running
    /\ MatchBegin(content, format, FALSE)
    /\ UNCHANGED << htmlVars, modules, pdfVars, ipynbVars, prev, convertVars >>

\* handled: return true after the await, return false in the catch. The
\* outcome keeps the arguments of the call next to the value.
HandledResume ==
    /\ stack = << "handled" >>
    /\ mpc = "done"
    /\ stack' = << >>
    /\ outcome' = [status |-> "returned", value |-> (result # "<raised>"),
                   args |-> margs]
    /\ MatchEnd
    /\ UNCHANGED << htmlVars, modules, pdfVars, ipynbVars, prev, convertVars >>

\* decode(file, content, format): const codec = await match(content, format)
CallDecode(content, format) ==
    /\ stack = << >>
    /\ stack' = << "decode" >>
    /\ outcome' = Running
    /\ MatchBegin(content, format, FALSE)
    /\ UNCHANGED << htmlVars, modules, pdfVars, ipynbVars, prev, convertVars >>

\* encode(node, options): throws without filePath and format, else
\* const codec = await match(filePath, format, true)
CallEncode(filePath, format) ==
    /\ stack = << >>
    /\ IF ~(Truthy(filePath) \/ Truthy(format))
       THEN /\ outcome' = [status |-> "threw", value |-> undefined]
            /\ UNCHANGED << stack, matchVars >>
       ELSE /\ stack' = << "encode" >>
            /\ outcome' = Running
            /\ MatchBegin(filePath, format, TRUE)
    /\ UNCHANGED << htmlVars, modules, pdfVars, ipynbVars, prev, convertVars >>

\* convert(input, outputPath, {to, from}): vfile.create(input), then
\* await decode(inputFile, input, from)
CallConvert(input, outputPath, to, from) ==
    /\ stack = << >>
    /\ stack' = << "convert", "decode" >>
    /\ outcome' = Running
    /\ cargs' = [input |-> input, outputPath |-> outputPath,
                 to |-> to, from |-> from]
    /\ phases' = << >>
    /\ outputFile' = NoFile
    /\ MatchBegin(input, from, FALSE)
    /\ UNCHANGED << htmlVars, modules, pdfVars, ipynbVars, prev, written >>

\* decode resumes after match: return codec.decode(file).  Under convert
\* the call of encode follows in the same turn: it throws without filePath
\* and format, else it calls match(filePath, format, true).
DecodeResume(decodeOk) ==
    /\ Top = "decode"
    /\ mpc = "done"
    /\ LET ok == decodeOk /\ result \notin {"<raised>", undefined}
       IN  IF Len(stack) = 1
           THEN /\ stack' = << >>
                /\ MatchEnd
                /\ outcome' = IF ok THEN [status |-> "returned", value |-> "node"]
                              ELSE [status |-> "threw", value |-> undefined]
                /\ UNCHANGED convertVars
           ELSE IF ~ok
           THEN /\ stack' = << >>
                /\ MatchEnd
                /\ outcome' = [status |-> "threw", value |-> undefined]
                /\ phases' = Append(phases, "resolveInput")
                /\ UNCHANGED << cargs, outputFile, written >>
           ELSE IF ~(Truthy(cargs.outputPath) \/ Truthy(cargs.to))
           THEN /\ stack' = << >>
                /\ MatchEnd
                /\ outcome' = [status |-> "threw", value |-> undefined]
                /\ phases' = phases \o << "resolveInput", "decode" >>
                /\ UNCHANGED << cargs, outputFile, written >>
           ELSE /\ stack' = << "convert", "encode" >>
                /\ outcome' = outcome
                /\ phases' = phases \o << "resolveInput", "decode" >>
                /\ MatchBegin(cargs.outputPath, cargs.to, TRUE)
                /\ UNCHANGED << cargs, outputFile, written >>
    /\ UNCHANGED << htmlVars, modules, pdfVars, ipynbVars, prev >>

\* The file is written whether or not an outputPath was given.
ShouldWriteAlways(outputPath) == TRUE

\* if (outputPath) await vfile.write(outputFile, outputPath)
ShouldWrite(outputPath) == Truthy(outputPath)

\* encode resumes after match: return codec.encode(node, options).  Under
\* convert, `if (outputPath) await vfile.write(outputFile, outputPath)`
\* follows, and without outputPath the return.
EncodeResume(encodeOk, file) ==
    /\ Top = "encode"
    /\ mpc = "done"
    /\ file \in EncodedFiles(margs.content)
    /\ MatchEnd
    /\ LET ok == encodeOk /\ result \notin {"<raised>", undefined}
       IN  IF Len(stack) = 1
           THEN /\ stack' = << >>
                /\ outcome' = IF ok THEN [status |-> "returned", value |-> "file"]
                              ELSE [status |-> "threw", value |-> undefined]
                /\ UNCHANGED convertVars
           ELSE IF ~ok
           THEN /\ stack' = << >>
                /\ outcome' = [status |-> "threw", value |-> undefined]
                /\ phases' = Append(phases, "resolveOutput")
                /\ UNCHANGED << cargs, outputFile, written >>
           ELSE IF ShouldWrite(cargs.outputPath)
           THEN /\ stack' = << "convert", "write" >>
                /\ outcome' = outcome
                /\ phases' = phases \o << "resolveOutput", "encode" >>
                /\ outputFile' = file
                /\ UNCHANGED << cargs, written >>
           ELSE /\ stack' = << >>
                /\ outcome' = [status |-> "returned", value |-> ConvertValue(file)]
                /\ phases' = phases \o << "resolveOutput", "encode" >>
                /\ outputFile' = file
                /\ UNCHANGED << cargs, written >>
    /\ UNCHANGED << htmlVars, modules, pdfVars, ipynbVars, prev >>

\* vfile.write(outputFile, outputPath) completes and convert returns
\* outputFile.contents ? vfile.dump(outputFile) : outputFile.path
ConvertWrite ==
    /\ Top = "write"
    /\ stack' = << >>
    /\ written' = written \cup {cargs.outputPath}
    /\ phases' = Append(phases, "write")
    /\ outcome' = [status |-> "returned", value |-> ConvertValue(outputFile)]
    /\ UNCHANGED << htmlVars, modules, pdfVars, ipynbVars, prev, matchVars, cargs, outputFile >>

(***************************************************************************)
(* The HTML codec: module-level state                                      *)
(***************************************************************************)

\* The two encode calls that may be in progress at once.
Calls == {1, 2}

Min(a, b) == IF a < b THEN a ELSE b

\* String.prototype.replace(/ /g, '-')
RECURSIVE dashSpaces(_)
dashSpaces(s) ==
    IF Len(s) = 0 THEN ""
    ELSE (IF CharAt(s, 1) = " " THEN "-" ELSE CharAt(s, 1))
             \o dashSpaces(SubSeq(s, 2, Len(s)))

\* github-slugger's slugger(string): lower case, spaces to dashes (the
\* texts of the model contain no character that it strips).
slugify(value) == dashSpaces(toLowerCase(value))

\* The while loop of GithubSlugger.prototype.slug.
RECURSIVE slugLoop(_, _, _)
slugLoop(occ, original, slug) ==
    IF slug \in DOMAIN occ
    THEN LET occ1 == [occ EXCEPT ![original] = @ + 1]
         IN  slugLoop(occ1, original, original \o "-" \o ToString(occ1[original]))
    ELSE [occurrences |-> (slug :> 0) @@ occ, slug |-> slug]

\* GithubSlugger.prototype.slug(value)
slug(occ, value) == slugLoop(occ, slugify(value), slugify(value))

\* GithubSlugger.prototype.reset(): no occurrences.
sluggerReset == [s \in {} |-> 0]

(***************************************************************************)
(* urlRegex and encodeHref                                                 *)
(***************************************************************************)

\* The characters of a string, as a set.
CharsOf(chars) == {CharAt(chars, i) : i \in 1..Len(chars)}

Letters   == CharsOf(UpperChars) \cup CharsOf(LowerChars)
Digits    == CharsOf(DigitChars)
\* [-a-zA-Z0-9@:%._+~#=]
HeadChars == Letters \cup Digits \cup CharsOf("-@:%._+~#=")
\* [a-zA-Z0-9()]
TldChars  == Letters \cup Digits \cup CharsOf("()")
\* [-a-zA-Z0-9()@:%_+.~#?&//=]
TailChars == Letters \cup Digits \cup CharsOf("-()@:%_+.~#?&/=")
\* \w
WordChars == Letters \cup Digits \cup {"_"}

\* The quantifier limits {1,256} and {1,6} of urlRegex.
UrlHeadMax == 256
UrlTldMax  == 6

\* The number of consecutive characters of s from position i on that are in
\* the character class.
RunLen(s, i, class) ==
    LET n == Len(s) - i + 1
    IN  IF n <= 0 THEN 0
        ELSE CHOOSE k \in 0..n :
                /\ \A j \in 0..(k - 1) : CharAt(s, i + j) \in class
                /\ k = n \/ CharAt(s, i + k) \notin class

\* \b before position p: exactly one of the characters around it is a word
\* character.
WordBoundary(s, p) ==
    LET w(q) == q \in 1..Len(s) /\ CharAt(s, q) \in WordChars
    IN  w(p - 1) # w(p)

\* The ways head{1,256} \. tld{1,6} \b can match at position i: the lengths
\* of the two runs.
UrlSplits(s, i) ==
    { kk \in (1..Min(RunLen(s, i, HeadChars), UrlHeadMax)) \X (1..UrlTldMax) :
        /\ i + kk[1] <= Len(s)
        /\ CharAt(s, i + kk[1]) = "."
        /\ kk[2] <= RunLen(s, i + kk[1] + 1, TldChars)
        /\ WordBoundary(s, i + kk[1] + 1 + kk[2]) }

\* Where the match that starts at position i ends (the position after it):
\* the quantifiers are greedy, the first one decides first.
UrlMatchEnd(s, i) ==
    LET splits == UrlSplits(s, i)
        k1 == CHOOSE a \in {kk[1] : kk \in splits} :
                  \A b \in {kk[1] : kk \in splits} : b <= a
        k2 == CHOOSE a \in {kk[2] : kk \in {x \in splits : x[1] = k1}} :
                  \A b \in {kk[2] : kk \in {x \in splits : x[1] = k1}} : b <= a
        e  == i + k1 + 1 + k2
    IN  e + RunLen(s, e, TailChars)

\* urlRegex.test(href) with the g flag: the search starts at lastIndex, a
\* match moves lastIndex to its end and a failure resets it to 0.
urlRegexTest(href, last) ==
    LET starts == {i \in (last + 1)..Len(href) : UrlSplits(href, i) # {}}
    IN  IF starts = {}
        THEN [found |-> FALSE, lastIndex |-> 0]
        ELSE LET i == CHOOSE a \in starts : \A b \in starts : a <= b
             IN  [found |-> TRUE, lastIndex |-> UrlMatchEnd(href, i) - 1]

\* encodeHref(href): the href and the new lastIndex of urlRegex.
encodeHref(href, last) ==
    IF href = undefined THEN [href |-> "#", lastIndex |-> last]
    ELSE IF startsWith(href, "#") THEN [href |-> href, lastIndex |-> last]
    ELSE LET t == urlRegexTest(href, last)
         IN  [href |-> IF t.found THEN href ELSE "#" \o href,
              lastIndex |-> t.lastIndex]

(***************************************************************************)
(* HTMLCodec.encode                                                        *)
(***************************************************************************)

Heading(id, depth, text) ==
    [type |-> "Heading", id |-> id, depth |-> depth, text |-> text]
MathFragment(text) == [type |-> "MathFragment", text |-> text]
Cite(target) == [type |-> "Cite", target |-> target]

\* An article with a title (a string or undefined) and content, and the same
\* node with one more property.
Article(title, content) == [type |-> "Article", title |-> title, content |-> content]
With(node, property) == node @@ [p \in {property} |-> "x"]

\* An optional property that is not a string: absent, or present with a value.
None == {}
Some(v) == {v}
Get(o) == CHOOSE v \in o : TRUE

\* A list item: position and isChecked are optional, url is a string or
\* undefined.
ListItem(position, url, isChecked, content) ==
    [type |-> "ListItem", position |-> position, url |-> url,
     isChecked |-> isChecked, content |-> content]
List(order, items) == [type |-> "List", order |-> order, items |-> items]

\* Bounds of the model: the nodes of one document, the encode calls of the
\* concurrent specification and those of the sequential one.
MaxNodes == 2
MaxCalls == 2
MaxSeqCalls == 3

\* The lists of at most MaxNodes nodes drawn from the set S.
DocsOver(S) == UNION {[1..n -> S] : n \in 1..MaxNodes}

\* The list is not reset: the promises of earlier calls stay in it.
mathJaxInitKeeps(list) == list

\* mathJaxInit(): the list of promises becomes a new empty list.
mathJaxInit(list) == << >>

\* mathJaxFinish awaits nothing.
mathJaxFinishNothing(list) == << >>

\* mathJaxFinish(): Promise.all over the promises in the list at the call.
mathJaxFinish(list) == list

\* Nodes of the document model.  A string of the model is a Text node.
Text(value) == [type |-> "Text", value |-> value]
Paragraph(content) == [type |-> "Paragraph", content |-> content]

\* Nodes of the DOM: text nodes, and elements with the itemtype attribute
\* (as the type microdataType gives for it, undefined when absent), the
\* other attributes the codec reads, and the child nodes.
TextNode(data) == [tag |-> "#text", data |-> data]
Element(tag, itemtype, attrs, children) ==
    [tag |-> tag, itemtype |-> itemtype, attrs |-> attrs, children |-> children]
NoAttrs == [a \in {} |-> ""]

\* escape-html: the five characters it replaces.
escapeChar(c) ==
    CASE c = "&"  -> "&amp;"
      [] c = "<"  -> "&lt;"
      [] c = ">"  -> "&gt;"
      [] c = "\"" -> "&quot;"
      [] c = "'"  -> "&#39;"
      [] OTHER    -> c

\* escape(value) of escape-html.
RECURSIVE escape(_)
escape(s) ==
    IF Len(s) = 0 THEN ""
    ELSE escapeChar(CharAt(s, 1)) \o escape(SubSeq(s, 2, Len(s)))

\* Serialisation of the data of a text node by outerHTML / innerHTML.
RECURSIVE serializeText(_)
serializeText(s) ==
    IF Len(s) = 0 THEN ""
    ELSE (CASE CharAt(s, 1) = "&" -> "&amp;"
            [] CharAt(s, 1) = "<" -> "&lt;"
            [] CharAt(s, 1) = ">" -> "&gt;"
            [] OTHER              -> CharAt(s, 1))
         \o serializeText(SubSeq(s, 2, Len(s)))

\* The character references the HTML parser replaces in text.
CharRefs ==
    << << "&amp;", "&" >>, << "&lt;", "<" >>, << "&gt;", ">" >>,
       << "&quot;", "\"" >>, << "&#39;", "'" >> >>

\* The data of the text node the parser (new jsdom.JSDOM) builds from the
\* markup of a text.
RECURSIVE parseText(_)
parseText(s) ==
    IF Len(s) = 0 THEN ""
    ELSE IF \E i \in 1..Len(CharRefs) : startsWith(s, CharRefs[i][1])
    THEN LET i == CHOOSE j \in 1..Len(CharRefs) : startsWith(s, CharRefs[j][1])
         IN  CharRefs[i][2] \o parseText(SubSeq(s, Len(CharRefs[i][1]) + 1, Len(s)))
    ELSE CharAt(s, 1) \o parseText(SubSeq(s, 2, Len(s)))

\* The child nodes the parser builds from the serialisation of the given
\* child nodes: the data of a text node goes through serializeText and
\* parseText, adjacent text nodes become one, an empty text node is none.
RECURSIVE reparse(_)
reparse(nodes) ==
    IF Len(nodes) = 0 THEN << >>
    ELSE LET n    == Head(nodes)
             rest == reparse(Tail(nodes))
         IN  IF n.tag = "#text"
             THEN LET d == parseText(serializeText(n.data))
                  IN  IF Len(rest) > 0 /\ Head(rest).tag = "#text"
                      THEN << TextNode(d \o Head(rest).data) >> \o Tail(rest)
                      ELSE IF d = "" THEN rest
                      ELSE << TextNode(d) >> \o rest
             ELSE << [n EXCEPT !.children = reparse(@)] >> \o rest

RECURSIVE encodeNode(_, _)
RECURSIVE encodeNodes(_, _)

\* The state the synchronous tree walk threads through the encode*
\* functions: the module-level state and the elements built so far.
WalkState(occ, list, states, last) ==
    [slugger |-> occ, mathJaxPromises |-> list, promiseState |-> states,
     lastIndex |-> last, dom |-> << >>, own |-> {}, log |-> << >>]

\* The <h2>..<h6> element of a heading: h(`h${Math.min(depth + 1, 6)}`,
\* {attrs: {...microdata(heading), id}}, content.map(encodeNode)).
HeadingElement(depth, id, text) ==
    [tag |-> "h" \o ToString(Min(depth + 1, 6)), itemtype |-> "Heading",
     id |-> id, children |-> << TextNode(escape(text)) >>]

\* encodeHeading: a text node for empty content, else <h{depth+1}> (at
\* most h6) with the given id or a slug of the text.
encodeHeading(heading, st) ==
    IF heading.text = ""
    THEN [st EXCEPT !.dom = Append(@, TextNode(""))]
    ELSE IF heading.id # undefined
    THEN [st EXCEPT !.dom = Append(@, HeadingElement(heading.depth, heading.id, heading.text))]
    ELSE LET r == slug(st.slugger, heading.text)
         IN  [st EXCEPT !.slugger = r.occurrences,
                        !.dom = Append(@, HeadingElement(heading.depth, r.slug, heading.text))]

\* encodeMath: a <span> now, and mathJaxTypeset pushes the promise of its
\* content onto the module-level list.
encodeMath(math, st) ==
    LET id == Len(st.promiseState) + 1
    IN  [st EXCEPT !.promiseState = Append(@, "pending"),
                   !.mathJaxPromises = Append(@, id),
                   !.own = @ \cup {id},
                   !.dom = Append(@, [tag |-> "span", promise |-> id])]

\* encodeCite: <cite><a href=encodeHref(target)>.
encodeCite(cite, st) ==
    LET r == encodeHref(cite.target, st.lastIndex)
    IN  [st EXCEPT !.lastIndex = r.lastIndex,
                   !.dom = Append(@, [tag |-> "cite", href |-> r.href])]

\* encodeParagraph: <p> with the encoded content.
encodeParagraph(para, st) ==
    LET inner == encodeNodes(para.content, [st EXCEPT !.dom = << >>])
    IN  [inner EXCEPT !.dom = Append(st.dom, Element("p", "Paragraph", NoAttrs, inner.dom))]

\* encodeString: document.createTextNode(escape(value))
encodeString(value, st) ==
    [st EXCEPT !.dom = Append(@, TextNode(escape(value.value)))]

\* A node of a type the codec has no encoder for: a type and one string.
Entity(type, text) == [type |-> type, text |-> text]

\* The characters JSON5 writes as they are inside a quoted string.
PlainChars == {"a", " ", "<"}

\* JSON5.stringify of such a node: unquoted keys, single-quoted strings. The
\* strings of the model hold no character JSON5 escapes.
JSON5stringify(entity) ==
    "{type:'" \o entity.type \o "',text:'" \o entity.text \o "'}"

\* encodeEntity: <span itemtype=Entity> around the JSON5 of the node; the
\* text is handed to h() as it is.
encodeEntity(entity, st) ==
    [st EXCEPT !.dom = Append(@, Element("span", "Entity", NoAttrs,
                                         << TextNode(JSON5stringify(entity)) >>))]

\* The properties the nodes of the model can have besides those of their
\* type, in the order Object.keys lists them.
MoreProperties == << "foo", "bar" >>

\* Joins the strings of a sequence with ', '.
RECURSIVE join(_)
join(strs) ==
    IF Len(strs) = 0 THEN ""
    ELSE IF Len(strs) = 1 THEN strs[1]
    ELSE strs[1] \o ", " \o join(Tail(strs))

\* logWarnLossIfAny: one warning naming the properties left over, when there
\* are any.
logWarnLossIfAny(format, operation, node, lost, log) ==
    IF lost = {} THEN log
    ELSE Append(log, format \o ":" \o operation \o ": Properties of " \o node.type
                     \o " not supported: "
                     \o join(SelectSeq(MoreProperties, LAMBDA k : k \in lost)))

\* A <meta itemprop=... content=...> element.
Meta(itemprop, content) ==
    Element("meta", undefined, [itemprop |-> itemprop, content |-> content], << >>)

\* The value of an attribute set from an optional number: template literals
\* and setAttribute turn undefined into the string 'undefined'.
AttrString(o) == IF o = None THEN "undefined" ELSE ToString(Get(o))

\* encodeListItem: <li> with the position and the url as <meta> elements, a
\* checkbox when isChecked is defined, and the content, a single paragraph
\* unwrapped.
encodeListItem(listItem, st) ==
    LET content == listItem.content
        inner == IF Len(content) = 1 /\ content[1].type = "Paragraph"
                 THEN encodeNodes(content[1].content, [st EXCEPT !.dom = << >>])
                 ELSE encodeNodes(content, [st EXCEPT !.dom = << >>])
        checkbox == IF listItem.isChecked = None THEN << >>
                    ELSE << Element("input", undefined,
                                    IF Get(listItem.isChecked)
                                    THEN [type |-> "checkbox", checked |-> ""]
                                    ELSE [type |-> "checkbox"], << >>) >>
        li == Element("li", "ListItem", NoAttrs,
                      << Meta("position", AttrString(listItem.position)),
                         Meta("url", IF listItem.url # undefined THEN listItem.url
                                     ELSE "#" \o AttrString(listItem.position)) >>
                        \o checkbox \o inner.dom)
    IN  [inner EXCEPT !.dom = Append(st.dom, li)]

\* The items of a list keep their position.
WithPositionKept(item, index) == item

\* {position: item.position ?? index + 1, ...item}, index counted from 0.
WithPosition(item, index) ==
    IF item.position # None THEN item
    ELSE [item EXCEPT !.position = Some(index + 1)]

\* list.items.map((item, index) => encodeNode({position: ..., ...item}))
RECURSIVE encodeItems(_, _, _)
encodeItems(items, index, st) ==
    IF items = << >> THEN st
    ELSE encodeItems(Tail(items), index + 1,
                     encodeNode(WithPosition(Head(items), index), st))

\* encodeList: <ul> for an unordered list and <ol> otherwise.
encodeList(list, st) ==
    LET inner == encodeItems(list.items, 0, [st EXCEPT !.dom = << >>])
    IN  [inner EXCEPT !.dom =
            Append(st.dom, Element(IF list.order = "unordered" THEN "ul" ELSE "ol",
                                   "List", NoAttrs, inner.dom))]

\* placeholderImg(text, width, height)
placeholderImg(text, width, height) ==
    "https://via.placeholder.com/" \o ToString(width) \o "x" \o ToString(height)
        \o "/dbdbdb/4a4a4a.png?text=" \o text

\* encodeTitleProperty: nothing without a title, else <h1 itemprop=headline>.
encodeTitleProperty(title) ==
    IF title = undefined THEN << >>
    ELSE << Element("h1", undefined, [itemprop |-> "headline"], << TextNode(title) >>) >>

\* encodeImageProperty of an article without an image: the placeholder.
encodeImageProperty(article) ==
    Meta("image", placeholderImg(IF article.title = undefined THEN "" ELSE article.title,
                                 1200, 714))

\* encodePublisherProperty without a publisher: stencila.organization(),
\* the name 'Unknown' and a placeholder logo, both as <meta>.
encodePublisherProperty ==
    Element("span", "Organization", [itemprop |-> "publisher"],
            << Meta("name", "Unknown"),
               Element("span", "ImageObject", [itemprop |-> "logo"],
                       << Meta("url", placeholderImg("Unknown", 600, 60)) >>) >>)

\* encodeArticle: the properties the encoder places are taken out, the rest
\* is reported as lost; <article> with title, image, publisher and content.
encodeArticle(article, st) ==
    LET lost == DOMAIN article \ {"type", "title", "authors", "publisher",
                                  "datePublished", "identifiers", "description",
                                  "content", "references"}
        inner == encodeNodes(article.content,
                             [st EXCEPT !.dom = << >>,
                                        !.log = logWarnLossIfAny("html", "encode",
                                                                 article, lost, @)])
    IN  [inner EXCEPT !.dom =
            Append(st.dom,
                   Element("article", "Article", NoAttrs,
                           encodeTitleProperty(article.title)
                             \o << encodeImageProperty(article), encodePublisherProperty >>
                             \o inner.dom))]

encodeNode(node, st) ==
    CASE node.type = "Heading"      -> encodeHeading(node, st)
      [] node.type = "MathFragment" -> encodeMath(node, st)
      [] node.type = "Cite"         -> encodeCite(node, st)
      [] node.type = "Paragraph"    -> encodeParagraph(node, st)
      [] node.type = "Text"         -> encodeString(node, st)
      [] node.type = "Article"      -> encodeArticle(node, st)
      [] node.type = "List"         -> encodeList(node, st)
      [] node.type = "ListItem"     -> encodeListItem(node, st)
      [] OTHER                      -> encodeEntity(node, st)

\* encodeNodes: nodes.map(encodeNode), left to right.
encodeNodes(nodes, st) ==
    IF nodes = << >> THEN st
    ELSE encodeNodes(Tail(nodes), encodeNode(Head(nodes), st))

\* dom.innerHTML: a <span> of a Math node shows the content MathJax set, or
\* nothing while its promise is pending or after it failed.
Render(elems, states) ==
    [i \in 1..Len(elems) |->
        IF elems[i].tag = "span"
        THEN [tag |-> "span", content |-> states[elems[i].promise]]
        ELSE elems[i]]

\* The part of encode from mathJaxInit() to the call of mathJaxFinish(),
\* which runs without suspending: reset the list, walk the tree, await the
\* promises now in the list.
WalkAndFinish(p, node, occ) ==
    \E st \in {encodeNodes(node,
                  WalkState(occ, mathJaxInit(mathJaxPromises), promiseState, lastIndex))} :
        /\ slugger' = st.slugger
        /\ mathJaxPromises' = st.mathJaxPromises
        /\ promiseState' = st.promiseState
        /\ lastIndex' = st.lastIndex
        /\ dom' = [dom EXCEPT ![p] = st.dom]
        /\ own' = [own EXCEPT ![p] = st.own]
        /\ awaited' = [awaited EXCEPT ![p] = mathJaxFinish(st.mathJaxPromises)]
        /\ hpc' = [hpc EXCEPT ![p] = "finish"]

\* HTMLCodec.encode(node, {isBundle, isStandalone}) is called: the slugger
\* is reset; with isBundle the call suspends at fromFiles, else it runs on
\* to mathJaxFinish.
HtmlEncode(p, node, isBundle, isStandalone, limit) ==
    /\ hpc[p] \in {"idle", "returned"}
    /\ calls < limit
    /\ calls' = calls + 1
    /\ hnode' = [hnode EXCEPT ![p] = node]
    /\ hopts' = [hopts EXCEPT ![p] = [isBundle |-> isBundle, isStandalone |-> isStandalone]]
    /\ html' = [html EXCEPT ![p] = << >>]
    /\ IF isBundle
       THEN /\ slugger' = sluggerReset
            /\ hpc' = [hpc EXCEPT ![p] = "fromFiles"]
            /\ dom' = [dom EXCEPT ![p] = << >>]
            /\ own' = [own EXCEPT ![p] = {}]
            /\ awaited' = [awaited EXCEPT ![p] = << >>]
            /\ UNCHANGED << mathJaxPromises, promiseState, lastIndex >>
       ELSE WalkAndFinish(p, node, sluggerReset)
    /\ UNCHANGED << hprev, tripVars, modules, pdfVars, ipynbVars, stack, prev,
                    matchVars, convertVars, outcome >>

\* fromFiles resolves (the nodes of the model hold no media, it returns
\* them as they are) and the call runs on to mathJaxFinish.
HtmlResumeFromFiles(p) ==
    /\ hpc[p] = "fromFiles"
    /\ WalkAndFinish(p, hnode[p], slugger)
    /\ UNCHANGED << hnode, hopts, html, calls, hprev,
                    tripVars, modules, pdfVars, ipynbVars, stack, prev,
                    matchVars, convertVars, outcome >>

\* Promise.all of mathJaxFinish resolves once every awaited promise has
\* fulfilled and rejects as soon as one rejects; the call returns the HTML,
\* or suspends at generateHtmlElement.
HtmlResumeFinish(p) ==
    /\ hpc[p] = "finish"
    /\ IF \E i \in 1..Len(awaited[p]) : promiseState[awaited[p][i]] = "rejected"
       THEN \* Promise.all rejects with the first rejection and encode rejects
            /\ hpc' = [hpc EXCEPT ![p] = "rejected"]
            /\ html' = html
       ELSE /\ \A i \in 1..Len(awaited[p]) : promiseState[awaited[p][i]] # "pending"
            /\ IF hopts[p].isStandalone
               THEN /\ hpc' = [hpc EXCEPT ![p] = "standalone"]
                    /\ html' = html
               ELSE /\ hpc' = [hpc EXCEPT ![p] = "returned"]
                    /\ html' = [html EXCEPT ![p] = Render(dom[p], promiseState)]
    /\ UNCHANGED << slugger, mathJaxPromises, promiseState, lastIndex, hnode,
                    hopts, dom, own, awaited, calls, hprev,
                    tripVars, modules, pdfVars, ipynbVars, stack, prev,
                    matchVars, convertVars, outcome >>

\* generateHtmlElement resolves and the call returns the HTML.
HtmlResumeStandalone(p) ==
    /\ hpc[p] = "standalone"
    /\ hpc' = [hpc EXCEPT ![p] = "returned"]
    /\ html' = [html EXCEPT ![p] = Render(dom[p], promiseState)]
    /\ UNCHANGED << slugger, mathJaxPromises, promiseState, lastIndex, hnode,
                    hopts, dom, own, awaited, calls, hprev,
                    tripVars, modules, pdfVars, ipynbVars, stack, prev,
                    matchVars, convertVars, outcome >>

\* Without the .catch a failed typesetting rejects the promise in the list.
mathJaxTypesetNoCatch(ok) == IF ok THEN "rendered" ELSE "rejected"

\* What the promise mathJaxTypeset pushes settles to, from the outcome of
\* MathJax.typeset: .then sets the innerHTML ("rendered"); .catch calls
\* log.error and the promise fulfils ("failed": logged, nothing rendered).
mathJaxTypeset(ok) == IF ok THEN "rendered" ELSE "failed"

\* MathJax.typeset settles: .then sets the innerHTML of the element, .catch
\* logs the error; the promise pushed onto the list fulfils either way.
MathJaxSettle(id, ok) ==
    /\ id \in 1..Len(promiseState)
    /\ promiseState[id] = "pending"
    /\ promiseState' = [promiseState EXCEPT ![id] = mathJaxTypeset(ok)]
    /\ UNCHANGED << slugger, mathJaxPromises, lastIndex, hpc, hnode, hopts,
                    dom, own, awaited, html, calls, hprev,
                    tripVars, modules, pdfVars, ipynbVars, stack, prev,
                    matchVars, convertVars, outcome >>

\* The caller keeps the node, the options and the HTML of a call that
\* returned, to compare them with those of a later call.
HtmlRemember(p) ==
    /\ hpc[p] = "returned"
    /\ hprev' = [set |-> TRUE, node |-> hnode[p], opts |-> hopts[p], html |-> html[p]]
    /\ hprev' # hprev
    /\ UNCHANGED << slugger, mathJaxPromises, promiseState, lastIndex, hpc,
                    hnode, hopts, dom, own, awaited, html, calls,
                    tripVars, modules, pdfVars, ipynbVars, stack, prev,
                    matchVars, convertVars, outcome >>

(***************************************************************************)
(* HTMLCodec.decode                                                        *)
(***************************************************************************)

\* No node: nothing was given to encode, nothing was returned by decode.
NoNode == [type |-> "<none>"]

\* A JavaScript array of nodes as a node.
ArrayNode(items) == [type |-> "Array", items |-> items]

\* The document the parser builds: whether it has a <body> (a frameset
\* document has none) and the child nodes of the body.
Document(hasBody, children) == [hasBody |-> hasBody, children |-> children]

\* What a decode function gives: the nodes it returned (one node, or the
\* elements of the array it returned), the warnings it logged, and whether
\* it threw instead.
Decoded(nodes, log) == [nodes |-> nodes, log |-> log, threw |-> FALSE]
Threw(log) == [nodes |-> << >>, log |-> log, threw |-> TRUE]

RECURSIVE decodeNode(_)

\* The elements of the result and, in their place, those of every array
\* among them, at any depth.
RECURSIVE spreadDeep(_)
spreadDeep(curr) ==
    IF Len(curr) = 0 THEN << >>
    ELSE (IF Head(curr).type = "Array" THEN spreadDeep(Head(curr).items)
          ELSE << Head(curr) >>) \o spreadDeep(Tail(curr))

\* ...(Array.isArray(curr) ? curr : [curr]): the elements of an array
\* result as they are, an array among them staying one element; a result
\* that is no array is the one element (Decoded holds it as a list of one).
spread(curr) == curr

\* decodeNodes: nodes.map(decodeNode), the results concatenated in order.
RECURSIVE decodeNodes(_)
decodeNodes(nodes) ==
    IF Len(nodes) = 0 THEN Decoded(<< >>, << >>)
    ELSE LET a == decodeNode(Head(nodes))
         IN  IF a.threw THEN a
             ELSE LET b == decodeNodes(Tail(nodes))
                  IN  [nodes |-> spread(a.nodes) \o b.nodes, log |-> a.log \o b.log,
                       threw |-> b.threw]

decodeChildNodes(node) == decodeNodes(node.children)

\* decodeInlineChildNodes: the decoded child nodes but the empty strings.
decodeInlineChildNodes(node) ==
    LET r == decodeChildNodes(node)
    IN  [r EXCEPT !.nodes = SelectSeq(@, LAMBDA n : n # Text(""))]

\* decodeText: text.data
decodeText(text) == Decoded(<< Text(text.data) >>, << >>)

\* decodeParagraph
decodeParagraph(para) ==
    LET r == decodeInlineChildNodes(para)
    IN  IF r.threw THEN r ELSE Decoded(<< Paragraph(r.nodes) >>, r.log)

\* /^h(\d)$/i.exec(s): the digit, as a number; -1 when there is no match.
headingLevel(s) ==
    IF Len(s) = 2 /\ CharAt(s, 1) \in {"h", "H"} /\ CharAt(s, 2) \in Digits
    THEN (CHOOSE i \in 1..Len(DigitChars) : CharAt(DigitChars, i) = CharAt(s, 2)) - 1
    ELSE -1

Max(a, b) == IF a > b THEN a ELSE b

\* TxtCodec.stringify of decoded inline content: the strings joined.
RECURSIVE textOf(_)
textOf(nodes) ==
    IF Len(nodes) = 0 THEN ""
    ELSE (IF Head(nodes).type = "Text" THEN Head(nodes).value ELSE "")
         \o textOf(Tail(nodes))

\* The depth of the decoded heading is the level of the element.
decodeHeadingNoShift(heading, depth) ==
    LET r == decodeInlineChildNodes(heading)
    IN  IF r.threw THEN r
        ELSE Decoded(<< Heading(undefined, depth, textOf(r.nodes)) >>, r.log)

\* decodeHeading: depth Math.max(1, depth - 1) and the inline content.
decodeHeading(heading, depth) ==
    LET r == decodeInlineChildNodes(heading)
    IN  IF r.threw THEN r
        ELSE Decoded(<< Heading(undefined, Max(1, depth - 1), textOf(r.nodes)) >>, r.log)

\* t occurs in s at the index i.
StartsWithAt(s, i, t) ==
    /\ i + Len(t) - 1 <= Len(s)
    /\ SubSeq(s, i, i + Len(t) - 1) = t

\* JSON5.parse of the texts JSON5stringify writes for the nodes of the
\* model, {type:'T',text:'S'}; any other text counts as a syntax error.
JSON5parse(json) ==
    LET types == {t \in {"Foo", "Bar"} : StartsWithAt(json, 1, "{type:'" \o t \o "',text:'")}
    IN  IF types = {} \/ Len(json) < 2 \/ ~StartsWithAt(json, Len(json) - 1, "'}")
        THEN [ok |-> FALSE, value |-> NoNode]
        ELSE LET t == CHOOSE x \in types : TRUE
                 from == Len("{type:'" \o t \o "',text:'") + 1
                 body == SubSeq(json, from, Len(json) - 2)
             IN  IF from > Len(json) - 1
                    \/ \E i \in 1..Len(body) : CharAt(body, i) \notin PlainChars
                 THEN [ok |-> FALSE, value |-> NoNode]
                 ELSE [ok |-> TRUE, value |-> Entity(t, body)]

\* elem.textContent: the data of the text descendants, in document order.
RECURSIVE textContent(_)
textContent(nodes) ==
    IF Len(nodes) = 0 THEN ""
    ELSE (IF Head(nodes).tag = "#text" THEN Head(nodes).data
          ELSE textContent(Head(nodes).children))
         \o textContent(Tail(nodes))

\* decodeEntity: the node the text content parses to; stencila.entity() and
\* a logged error when it does not parse.
decodeEntity(elem) ==
    LET json == textContent(elem.children)
        r == JSON5parse(json)
    IN  IF r.ok THEN Decoded(<< r.value >>, << >>)
        ELSE Decoded(<< [type |-> "Entity"] >>, << "Error parsing JSON: " \o json >>)

\* The value of an attribute of an element, undefined without it.
Attr(n, name) ==
    IF "attrs" \in DOMAIN n /\ name \in DOMAIN n.attrs THEN n.attrs[name] ELSE undefined

\* el.querySelector('[itemprop=...]'): the first descendant in document
\* order with that itemprop, as a sequence of none or one.
RECURSIVE propSelector(_, _)
propSelector(nodes, itemprop) ==
    IF Len(nodes) = 0 THEN << >>
    ELSE LET n == Head(nodes)
         IN  IF n.tag = "#text" THEN propSelector(Tail(nodes), itemprop)
             ELSE IF Attr(n, "itemprop") = itemprop THEN << n >>
             ELSE LET inside == propSelector(n.children, itemprop)
                  IN  IF Len(inside) > 0 THEN inside
                      ELSE propSelector(Tail(nodes), itemprop)

\* headline.remove(): the nodes without the first node with that itemprop.
RECURSIVE removeProp(_, _)
removeProp(nodes, itemprop) ==
    IF Len(nodes) = 0 THEN << >>
    ELSE LET n == Head(nodes)
         IN  IF n.tag = "#text" THEN << n >> \o removeProp(Tail(nodes), itemprop)
             ELSE IF Attr(n, "itemprop") = itemprop THEN Tail(nodes)
             ELSE IF Len(propSelector(n.children, itemprop)) > 0
             THEN << [n EXCEPT !.children = removeProp(@, itemprop)] >> \o Tail(nodes)
             ELSE << n >> \o removeProp(Tail(nodes), itemprop)

\* decodeArticle: the title is the text of the headline element, which is
\* taken out, or 'Untitled'; the content is what the other children decode
\* to. The documents of the model hold no list of references.
decodeArticle(element) ==
    LET headline == propSelector(element.children, "headline")
        title == IF Len(headline) > 0 THEN textContent(headline[1].children)
                 ELSE "Untitled"
        r == decodeNodes(removeProp(element.children, "headline"))
    IN  IF r.threw THEN r
        ELSE Decoded(<< Article(title, r.nodes) >>, r.log)

Link(target, content) == [type |-> "Link", target |-> target, content |-> content]

\* decodeLink: the target is the href attribute, '#' without one. The
\* anchors of the model have no data- attributes, so there is no meta.
decodeLink(elem) ==
    LET r == decodeInlineChildNodes(elem)
        href == Attr(elem, "href")
    IN  IF r.threw THEN r
        ELSE Decoded(<< Link(IF href # undefined THEN href ELSE "#", r.nodes) >>, r.log)

\* el.querySelector(selector) for the selectors the decoders use, given as
\* a test on one element: the first match in document order, as a sequence
\* of none or one.
RECURSIVE querySelector(_, _, _)
querySelector(nodes, attr, value) ==
    IF Len(nodes) = 0 THEN << >>
    ELSE LET n == Head(nodes)
         IN  IF n.tag = "#text" THEN querySelector(Tail(nodes), attr, value)
             ELSE IF (IF attr = "tag" THEN n.tag ELSE Attr(n, attr)) = value THEN << n >>
             ELSE LET inside == querySelector(n.children, attr, value)
                  IN  IF Len(inside) > 0 THEN inside
                      ELSE querySelector(Tail(nodes), attr, value)

\* /^language-(\w+)$/.exec(clas): the language, undefined without a match.
languageOf(clas) ==
    IF clas # undefined /\ Len(clas) > 9 /\ SubSeq(clas, 1, 9) = "language-"
       /\ \A i \in 10..Len(clas) : CharAt(clas, i) \in WordChars
    THEN SubSeq(clas, 10, Len(clas))
    ELSE undefined

CodeFragment(text, programmingLanguage) ==
    [type |-> "CodeFragment", text |-> text, programmingLanguage |-> programmingLanguage]
CodeBlock(text, programmingLanguage) ==
    [type |-> "CodeBlock", text |-> text, programmingLanguage |-> programmingLanguage]
CodeChunk(text, programmingLanguage, outputs) ==
    [type |-> "CodeChunk", text |-> text, programmingLanguage |-> programmingLanguage,
     outputs |-> outputs]

\* decodeCodeFragment of an element: its text content and the language of
\* its class.
decodeCodeFragment(elem) ==
    CodeFragment(textContent(elem.children), languageOf(Attr(elem, "class")))

\* decodeCodeBlock: throws without a <code> descendant.
decodeCodeBlock(elem) ==
    LET code == querySelector(elem.children, "tag", "code")
    IN  IF Len(code) = 0 THEN Threw(<< >>)
        ELSE LET frag == decodeCodeFragment(code[1])
             IN  Decoded(<< CodeBlock(frag.text, frag.programmingLanguage) >>, << >>)

\* decodeCodeChunk: decodeCodeFragment is called with what querySelector
\* gives for [slot="text"], and reading textContent of null throws. The
\* chunks of the model have no outputs.
decodeCodeChunk(chunk) ==
    LET codeElem == querySelector(chunk.children, "slot", "text")
    IN  IF Len(codeElem) = 0 THEN Threw(<< >>)
        ELSE LET frag == decodeCodeFragment(codeElem[1])
             IN  Decoded(<< CodeChunk(frag.text, frag.programmingLanguage, << >>) >>, << >>)

\* list.querySelectorAll('li'): the <li> descendants in document order.
RECURSIVE querySelectorAllLi(_)
querySelectorAllLi(nodes) ==
    IF Len(nodes) = 0 THEN << >>
    ELSE LET n == Head(nodes)
         IN  (IF n.tag = "#text" THEN << >>
              ELSE (IF n.tag = "li" THEN << n >> ELSE << >>)
                   \o querySelectorAllLi(n.children))
             \o querySelectorAllLi(Tail(nodes))

\* decodeListItem: only the content is read.
decodeListItem(li) ==
    LET r == decodeChildNodes(li)
    IN  IF r.threw THEN r
        ELSE Decoded(<< ListItem(None, undefined, None, r.nodes) >>, r.log)

RECURSIVE decodeListItems(_)
decodeListItems(lis) ==
    IF Len(lis) = 0 THEN Decoded(<< >>, << >>)
    ELSE LET r == decodeListItem(Head(lis))
         IN  IF r.threw THEN r
             ELSE LET rest == decodeListItems(Tail(lis))
                  IN  IF rest.threw THEN Threw(r.log \o rest.log)
                      ELSE Decoded(r.nodes \o rest.nodes, r.log \o rest.log)

\* decodeList: the order from the tag name, the items from the <li>s.
decodeList(list) ==
    LET r == decodeListItems(querySelectorAllLi(list.children))
    IN  IF r.threw THEN r
        ELSE Decoded(<< List(IF list.tag = "ul" THEN "unordered" ELSE "ascending",
                             r.nodes) >>, r.log)

\* The items between the commas of a text.
RECURSIVE splitCommas(_, _)
splitCommas(text, item) ==
    IF Len(text) = 0 THEN << item >>
    ELSE IF CharAt(text, 1) = ","
    THEN << item >> \o splitCommas(SubSeq(text, 2, Len(text)), "")
    ELSE splitCommas(SubSeq(text, 2, Len(text)), item \o SubSeq(text, 1, 1))

Number(value) == [type |-> "Number", value |-> value]

\* decodeArray: JSON5.parse of the innerHTML, '[]' for an empty one, wrapped
\* in an array of one element. The arrays of the model hold numbers of one
\* digit; any other text is a syntax error of JSON5.parse.
decodeArray(elem) ==
    LET inner == textContent(elem.children)
        json  == IF Len(inner) > 0 THEN inner ELSE "[]"
        body  == SubSeq(json, 2, Len(json) - 1)
        items == IF body = "" THEN << >> ELSE splitCommas(body, "")
    IN  IF Len(json) < 2 \/ CharAt(json, 1) # "[" \/ CharAt(json, Len(json)) # "]"
           \/ \E i \in 1..Len(items) : Len(items[i]) # 1 \/ items[i] \notin Digits
        THEN Threw(<< >>)
        ELSE Decoded(<< ArrayNode([i \in 1..Len(items) |-> Number(items[i])]) >>, << >>)

\* root.querySelectorAll(tag): the descendants with the tag, in document
\* order, given the children of the root.
RECURSIVE querySelectorAll(_, _)
querySelectorAll(nodes, tag) ==
    IF Len(nodes) = 0 THEN << >>
    ELSE LET n == Head(nodes)
         IN  (IF n.tag = "#text" THEN << >>
              ELSE (IF n.tag = tag THEN << n >> ELSE << >>)
                   \o querySelectorAll(n.children, tag))
             \o querySelectorAll(Tail(nodes), tag)

TableCell(content) == [type |-> "TableCell", content |-> content]
TableRow(cells) == [type |-> "TableRow", cells |-> cells]
Table(rows) == [type |-> "Table", rows |-> rows]

\* decodeTableCell: the inline content of the cell.
\* The result of one decoder wrapped into a node of the given type; a thrown
\* error passes through unchanged.
wrapCell(r) == IF r.threw THEN r ELSE Decoded(<< TableCell(r.nodes) >>, r.log)
wrapRow(r) == IF r.threw THEN r ELSE Decoded(<< TableRow(r.nodes) >>, r.log)
wrapTable(r) == IF r.threw THEN r ELSE Decoded(<< Table(r.nodes) >>, r.log)

\* Array.prototype.map over decoders: the results in order, stopping at the
\* first element whose decoder throws.
mapNext(a, b) ==
    IF a.threw THEN a
    ELSE [nodes |-> a.nodes \o b.nodes, log |-> a.log \o b.log, threw |-> b.threw]

decodeTableCell(cell) == wrapCell(decodeInlineChildNodes(cell))

\* The results of a decoder applied to each element of a list, as one
\* Decoded of all the nodes.
RECURSIVE decodeTableCells(_)
decodeTableCells(cells) ==
    IF Len(cells) = 0 THEN Decoded(<< >>, << >>)
    ELSE mapNext(decodeTableCell(Head(cells)), decodeTableCells(Tail(cells)))

\* decodeTableRow: the cells are row.querySelectorAll('td').
decodeTableRow(row) ==
    wrapRow(decodeTableCells(querySelectorAll(row.children, "td")))

RECURSIVE decodeTableRows(_)
decodeTableRows(rows) ==
    IF Len(rows) = 0 THEN Decoded(<< >>, << >>)
    ELSE mapNext(decodeTableRow(Head(rows)), decodeTableRows(Tail(rows)))

\* decodeTable: the rows are table.querySelectorAll('tr'). The tables of the
\* model have no id.
decodeTable(table) ==
    wrapTable(decodeTableRows(querySelectorAll(table.children, "tr")))

\* columnIndexToName of the xlsx codec: A, B, ..., Z, AA, ... for 0, 1, ...
ColumnLetters == "ABCDEFGHIJKLMNOPQRSTUVWXYZ"
RECURSIVE columnIndexToName(_)
columnIndexToName(index) ==
    IF index < 26 THEN SubSeq(ColumnLetters, index + 1, index + 1)
    ELSE columnIndexToName((index \div 26) - 1)
            \o SubSeq(ColumnLetters, (index % 26) + 1, (index % 26) + 1)

DatatableColumn(name, values) ==
    [type |-> "DatatableColumn", name |-> name, values |-> values]
Datatable(columns) == [type |-> "Datatable", columns |-> columns]

\* The names of decodeDatatable: per <th> of thead.querySelectorAll('tr th'),
\* the text of the first <th> inside that <th>, and columnIndexToName(index)
\* when it has none inside.
datatableNames(ths) ==
    [i \in 1..Len(ths) |->
        LET th == querySelector(ths[i].children, "tag", "th")
        IN  IF Len(th) > 0 THEN textContent(th[1].children)
            ELSE columnIndexToName(i - 1)]

\* decodeDatatable: the columns come from the <thead> alone; the <td> of the
\* rows of the <tbody> are written to columns[coli].values[rowi], which is a
\* TypeError when there is no such column.
decodeDatatable(elem) ==
    LET table == querySelector(elem.children, "tag", "table")
        thead == IF Len(table) > 0 THEN querySelector(table[1].children, "tag", "thead")
                 ELSE << >>
        tbody == IF Len(table) > 0 THEN querySelector(table[1].children, "tag", "tbody")
                 ELSE << >>
        ths   == IF Len(thead) = 0 THEN << >>
                 ELSE querySelectorAll(thead[1].children, "th")
        names == datatableNames(ths)
        rows  == IF Len(tbody) = 0 THEN << >>
                 ELSE querySelectorAll(tbody[1].children, "tr")
        tds   == [r \in 1..Len(rows) |-> querySelectorAll(rows[r].children, "td")]
        filled(c) == {r \in 1..Len(rows) : c <= Len(tds[r])}
        height(c) == IF filled(c) = {} THEN 0
                     ELSE CHOOSE r \in filled(c) : \A q \in filled(c) : q <= r
    IN  IF \E r \in 1..Len(rows) : Len(tds[r]) > Len(names)
        THEN Threw(<< >>)
        ELSE Decoded(<< Datatable(
                 [c \in 1..Len(names) |->
                     DatatableColumn(names[c],
                        [r \in 1..height(c) |->
                            IF c <= Len(tds[r]) THEN textContent(tds[r][c].children)
                            ELSE undefined])]) >>, << >>)

\* The element stops the decode.
noHandlerThrows(name) == Threw(<< "No handler for HTML element <" \o name \o ">" >>)

\* The end of decodeNode, for an element without handler and itemtype:
\* log.warn and an empty array.
noHandler(name) == Decoded(<< >>, << "No handler for HTML element <" \o name \o ">" >>)

\* decodeNode: the handler is chosen by the itemtype, or by the tag when
\* the element has no itemtype; an element without handler is skipped with
\* a warning.
decodeNode(node) ==
    LET name == IF node.tag # "#text" /\ node.itemtype # undefined
                THEN node.itemtype ELSE node.tag
    IN  CASE name \in {"article", "Article"} -> decodeArticle(node)
          [] name \in {"p", "Paragraph"}    -> decodeParagraph(node)
          [] name = "pre" /\ Len(node.children) > 0 /\ node.children[1].tag = "code" ->
                decodeCodeBlock(node)
          [] name = "CodeBlock"             -> decodeCodeBlock(node)
          [] name \in {"stencila-code-chunk", "CodeChunk"} -> decodeCodeChunk(node)
          [] name \in {"a", "Link"}         -> decodeLink(node)
          [] name \in {"code", "CodeFragment"} ->
                Decoded(<< decodeCodeFragment(node) >>, << >>)
          [] name \in {"ul", "ol", "List"}   -> decodeList(node)
          [] name \in {"li", "ListItem"}     -> decodeListItem(node)
          [] name \in {"table", "Table"}    -> decodeTable(node)
          [] name \in {"th", "tr", "TableRow"} -> decodeTableRow(node)
          [] name \in {"td", "TableCell"}   -> decodeTableCell(node)
          [] name = "Datatable"             -> decodeDatatable(node)
          [] name = "Array"                 -> decodeArray(node)
          [] name \in {"div", "span", "time"} -> decodeChildNodes(node)
          [] name = "script"                -> Decoded(<< >>, << >>)
          [] name = "#text"                 -> decodeText(node)
          [] headingLevel(name) # -1 \/ name = "Heading" ->
                decodeHeading(node, IF headingLevel(node.tag) # -1
                                    THEN headingLevel(node.tag) ELSE 1)
          [] node.itemtype # undefined -> decodeEntity(node)
          [] OTHER -> noHandler(name)

\* decodeDocument: the decoded child nodes of the body; a document without
\* body is an error.
decodeDocument(doc) ==
    IF ~doc.hasBody THEN Threw(<< >>)
    ELSE IF Len(doc.children) = 0 THEN Decoded(<< >>, << >>)
    ELSE decodeNodes(doc.children)

\* The block and the void elements of collapse-whitespace.
BlockTags ==
    {"address", "article", "aside", "audio", "blockquote", "body", "canvas",
     "center", "dd", "dir", "div", "dl", "dt", "fieldset", "figcaption",
     "figure", "footer", "form", "frameset", "h1", "h2", "h3", "h4", "h5",
     "h6", "header", "hgroup", "hr", "html", "isindex", "li", "main", "menu",
     "nav", "noframes", "noscript", "ol", "output", "p", "pre", "section",
     "table", "tbody", "td", "tfoot", "th", "thead", "tr", "ul"}
VoidTags ==
    {"area", "base", "br", "col", "command", "embed", "hr", "img", "input",
     "keygen", "link", "meta", "param", "source", "track", "wbr"}

\* text.replace(/[ \r\n\t]+/g, ' ')
RECURSIVE collapseRuns(_)
collapseRuns(s) ==
    IF Len(s) = 0 THEN ""
    ELSE LET c == CharAt(s, 1)
             rest == collapseRuns(SubSeq(s, 2, Len(s)))
         IN  IF c = " " /\ Len(rest) > 0 /\ CharAt(rest, 1) = " " THEN rest
             ELSE c \o rest

\* The walk of collapse-whitespace in document order. prevText is "none"
\* without a previous text, "space" when it ends with a space and "text"
\* otherwise: runs of white space become one space, and a leading space goes
\* when no text precedes or the preceding text ends with a space.
RECURSIVE collapseForward(_, _)
collapseForward(nodes, ps) ==
    IF Len(nodes) = 0 THEN [nodes |-> << >>, ps |-> ps]
    ELSE LET n == Head(nodes)
         IN  IF n.tag = "#text"
             THEN LET t0 == collapseRuns(n.data)
                      t  == IF ps.prevText # "text" /\ ~ps.prevVoid
                               /\ Len(t0) > 0 /\ CharAt(t0, 1) = " "
                            THEN SubSeq(t0, 2, Len(t0)) ELSE t0
                  IN  IF t = "" THEN collapseForward(Tail(nodes), ps)
                      ELSE LET rest == collapseForward(Tail(nodes),
                                           [ps EXCEPT !.prevText =
                                               IF CharAt(t, Len(t)) = " "
                                               THEN "space" ELSE "text"])
                           IN  [nodes |-> << TextNode(t) >> \o rest.nodes, ps |-> rest.ps]
             ELSE LET ps1 == IF n.tag \in BlockTags \/ n.tag = "br"
                             THEN [prevText |-> "none", prevVoid |-> FALSE]
                             ELSE IF n.tag \in VoidTags
                             THEN [prevText |-> "none", prevVoid |-> TRUE]
                             ELSE ps
                      inner == IF n.tag = "pre" THEN [nodes |-> n.children, ps |-> ps1]
                               ELSE collapseForward(n.children, ps1)
                      rest == collapseForward(Tail(nodes), inner.ps)
                  IN  [nodes |-> << [n EXCEPT !.children = inner.nodes] >> \o rest.nodes,
                       ps |-> rest.ps]

\* The trailing space a text loses when a block element or <br> is the next
\* thing visited after it ("block"), or when the walk ends ("end", where an
\* emptied text is removed); "no" after a text or a void element.
RECURSIVE collapseBackward(_, _)
collapseBackward(nodes, flag) ==
    IF Len(nodes) = 0 THEN [nodes |-> << >>, flag |-> flag]
    ELSE LET n == nodes[Len(nodes)]
             front == SubSeq(nodes, 1, Len(nodes) - 1)
         IN  IF n.tag = "#text"
             THEN LET d == n.data
                      t == IF flag # "no" /\ Len(d) > 0 /\ CharAt(d, Len(d)) = " "
                           THEN SubSeq(d, 1, Len(d) - 1) ELSE d
                      rest == collapseBackward(front, "no")
                  IN  [nodes |-> rest.nodes \o (IF t = "" /\ flag = "end" THEN << >>
                                                ELSE << TextNode(t) >>),
                       flag |-> rest.flag]
             ELSE LET inner == IF n.tag = "pre" THEN [nodes |-> n.children, flag |-> flag]
                               ELSE collapseBackward(n.children, flag)
                      f == IF n.tag \in BlockTags \/ n.tag = "br" THEN "block"
                           ELSE IF n.tag \in VoidTags THEN "no"
                           ELSE inner.flag
                      rest == collapseBackward(front, f)
                  IN  [nodes |-> rest.nodes \o << [n EXCEPT !.children = inner.nodes] >>,
                       flag |-> rest.flag]

\* collapse(document): <html> and <body> are block elements.
collapse(doc) ==
    [doc EXCEPT !.children =
        collapseBackward(collapseForward(@, [prevText |-> "none", prevVoid |-> FALSE]).nodes,
                         "end").nodes]

\* decodeHtml: the white space collapsed; of the array decodeDocument gives, '' with a warning when it
\* is empty, its element when it has one, else the array.
decodeHtml(doc) ==
    LET r == decodeDocument(collapse(doc))
    IN  IF r.threw THEN [node |-> NoNode, log |-> r.log, threw |-> TRUE]
        ELSE IF Len(r.nodes) = 0
        THEN [node |-> Text(""), threw |-> FALSE,
              log |-> Append(r.log, "No node could be decoded from HTML")]
        ELSE IF Len(r.nodes) = 1
        THEN [node |-> r.nodes[1], log |-> r.log, threw |-> FALSE]
        ELSE [node |-> ArrayNode(r.nodes), log |-> r.log, threw |-> FALSE]

(***************************************************************************)
(* One node through the HTML codec                                         *)
(***************************************************************************)

\* HTMLCodec.encode(node) of a single node without Math, isBundle and
\* isStandalone false: the walk, then dom.setAttribute (which a text node
\* does not have), then the HTML of dom.outerHTML, here parsed again.
TripEncode(node) ==
    /\ tpc = "idle"
    /\ \E st \in {encodeNode(node, WalkState(sluggerReset, mathJaxInit(mathJaxPromises),
                                              promiseState, lastIndex))} :
          /\ slugger' = st.slugger
          /\ mathJaxPromises' = st.mathJaxPromises
          /\ lastIndex' = st.lastIndex
          /\ tnode' = node
          /\ tout' = NoNode
          /\ tlog' = st.log
          /\ IF st.dom[1].tag = "#text"
             THEN /\ tpc' = "threw"
                  /\ tdoc' = Document(TRUE, << >>)
             ELSE /\ tpc' = "encoded"
                  /\ tdoc' = Document(TRUE, reparse(st.dom))
    /\ UNCHANGED << promiseState, hpc, hnode, hopts, dom, own, awaited, html,
                    calls, hprev, modules, pdfVars, ipynbVars, stack, prev, matchVars, convertVars,
                    outcome >>

\* HTMLCodec.decode of the document at hand.
TripDecode ==
    /\ tpc \in {"encoded", "parsed"}
    /\ \E r \in {decodeHtml(tdoc)} :
          /\ tout' = r.node
          /\ tlog' = tlog \o r.log
          /\ tpc' = IF r.threw THEN "decodeThrew" ELSE "decoded"
    /\ UNCHANGED << tnode, tdoc, slugger, mathJaxPromises, promiseState,
                    lastIndex, hpc, hnode, hopts, dom, own, awaited, html,
                    calls, hprev, modules, pdfVars, ipynbVars, stack, prev, matchVars, convertVars,
                    outcome >>

\* HTMLCodec.decode is given a document that did not come from encode.
TripParse(doc) ==
    /\ tpc = "idle"
    /\ tpc' = "parsed"
    /\ tdoc' = doc
    /\ tnode' = NoNode
    /\ tout' = NoNode
    /\ tlog' = << >>
    /\ UNCHANGED << slugger, mathJaxPromises, promiseState,
                    lastIndex, hpc, hnode, hopts, dom, own, awaited, html,
                    calls, hprev, modules, pdfVars, ipynbVars, stack, prev, matchVars, convertVars,
                    outcome >>

\* ipynb decodeMetadata: the title as a string, 'Untitled' when it is
\* missing or falsy; no authors.
decodeMetadata(metadata) ==
    [title |-> IF Truthy(metadata.title) THEN metadata.title ELSE "Untitled",
     authors |-> << >>]

\* ipynb decodeNotebookContent: an Article with the title and authors of the
\* metadata; raw cells give no content.
decodeNotebookContent(notebook) ==
    LET m == decodeMetadata(notebook.metadata)
    IN  [type |-> "Article", title |-> m.title, authors |-> m.authors,
         content |-> << >>]

\* The ipynb codec decodes a notebook.
TripNotebook(notebook) ==
    /\ tpc = "idle"
    /\ tpc' = "decoded"
    /\ tdoc' = notebook
    /\ tnode' = NoNode
    /\ tout' = decodeNotebookContent(notebook)
    /\ tlog' = << >>
    /\ UNCHANGED << slugger, mathJaxPromises, promiseState,
                    lastIndex, hpc, hnode, hopts, dom, own, awaited, html,
                    calls, hprev, modules, pdfVars, ipynbVars, stack, prev, matchVars, convertVars,
                    outcome >>

\* The caller is done with the result; the variables of the module stay.
TripReturn ==
    /\ tpc \in {"encoded", "parsed", "decoded", "threw", "decodeThrew"}
    /\ tpc' = "idle"
    /\ tnode' = NoNode
    /\ tdoc' = Document(TRUE, << >>)
    /\ tout' = NoNode
    /\ tlog' = << >>
    /\ UNCHANGED << slugger, mathJaxPromises, promiseState,
                    lastIndex, hpc, hnode, hopts, dom, own, awaited, html,
                    calls, hprev, modules, pdfVars, ipynbVars, stack, prev, matchVars, convertVars,
                    outcome >>

(***************************************************************************)
(* Authors and their affiliations                                          *)
(***************************************************************************)

Organization(name) == [type |-> "Organization", name |-> name]

\* A Person: givenNames and familyNames are lists (an absent one is the
\* empty list of the destructuring default), affiliations is None or Some
\* list of organizations.
Person(name, givenNames, familyNames, affiliations) ==
    [type |-> "Person", name |-> name, givenNames |-> givenNames,
     familyNames |-> familyNames, affiliations |-> affiliations]

\* The property names every object literal inherits from Object.prototype.
ObjectPrototype ==
    {"constructor", "hasOwnProperty", "isPrototypeOf", "propertyIsEnumerable",
     "toLocaleString", "toString", "valueOf", "__proto__", "__defineGetter__",
     "__defineSetter__", "__lookupGetter__", "__lookupSetter__"}

\* obj[key] for the object of the organizations, held as the list of its
\* own entries: the own entry, else what Object.prototype has under the
\* key, else undefined.
NoEntry == [kind |-> "undefined"]
Inherited == [kind |-> "inherited"]
Lookup(orgs, key) ==
    IF \E i \in 1..Len(orgs) : orgs[i].name = key
    THEN [kind |-> "own",
          entry |-> orgs[CHOOSE i \in 1..Len(orgs) : orgs[i].name = key]]
    ELSE IF key \in ObjectPrototype THEN Inherited
    ELSE NoEntry

\* authors.map(...).reduce(...): the affiliations of the Person authors that
\* have some, in order.
RECURSIVE allAffiliations(_)
allAffiliations(authors) ==
    IF Len(authors) = 0 THEN << >>
    ELSE (IF Head(authors).type = "Person" /\ Head(authors).affiliations # None
          THEN Get(Head(authors).affiliations) ELSE << >>)
         \o allAffiliations(Tail(authors))

\* The second reduce of encodeAuthorsProperty: an organization with a name
\* under which the object has nothing yet gets the entry [index, {...curr,
\* meta: {itemid}}], where index is the number of keys so far plus one.
RECURSIVE indexOrganizations(_, _)
indexOrganizations(affiliations, acc) ==
    IF Len(affiliations) = 0 THEN acc
    ELSE LET name == Head(affiliations).name
         IN  indexOrganizations(Tail(affiliations),
                IF name # undefined /\ Lookup(acc, name) = NoEntry
                THEN Append(acc, [name |-> name, index |-> Len(acc) + 1,
                                  itemid |-> "#author-organization-"
                                                \o ToString(Len(acc) + 1)])
                ELSE acc)

\* strs.join(' ')
RECURSIVE joinSpaces(_)
joinSpaces(strs) ==
    IF Len(strs) = 0 THEN ""
    ELSE IF Len(strs) = 1 THEN strs[1]
    ELSE strs[1] \o " " \o joinSpaces(Tail(strs))

\* The given names are used when there are no family names.
nameStringGivenAlone(person) ==
    IF person.name # undefined THEN person.name
    ELSE IF Len(person.givenNames) # 0 \/ Len(person.familyNames) # 0
    THEN joinSpaces(person.givenNames \o person.familyNames)
    ELSE "Anonymous"

\* nameString of encodePerson.
nameString(person) ==
    IF person.name # undefined THEN person.name
    ELSE IF Len(person.familyNames) # 0
    THEN (IF Len(person.givenNames) # 0
          THEN joinSpaces(person.givenNames \o person.familyNames)
          ELSE joinSpaces(person.familyNames))
    ELSE "Anonymous"

\* nameElem of encodePerson: a <span> with the name when there are neither
\* given nor family names, else a <meta>.
nameElem(person) ==
    IF Len(person.familyNames) = 0 /\ Len(person.givenNames) = 0
    THEN Element("span", undefined, [itemprop |-> "name"],
                 << TextNode(nameString(person)) >>)
    ELSE Meta("name", nameString(person))

\* givenNamesElem and familyNamesElem: nothing for an empty list.
namesElem(names, property) ==
    IF Len(names) = 0 THEN << >>
    ELSE << Element("span", undefined, [itemprop |-> property],
               [i \in 1..Len(names) |->
                   Element("span", undefined, [itemprop |-> property],
                           << TextNode(names[i]) >>)]) >>

\* The links of affiliationsElem: per affiliation the entry under its name
\* ('' without a name); a link to the itemid of the entry with its index as
\* text, nothing without an entry. An entry that is not an [index, org]
\* pair cannot be destructured: a TypeError.
RECURSIVE affiliationLinks(_, _)
affiliationLinks(affiliations, organizations) ==
    IF Len(affiliations) = 0 THEN [threw |-> FALSE, links |-> << >>]
    ELSE LET name  == Head(affiliations).name
             found == Lookup(organizations, IF name = undefined THEN "" ELSE name)
             rest  == affiliationLinks(Tail(affiliations), organizations)
         IN  IF found = Inherited \/ rest.threw THEN [threw |-> TRUE, links |-> << >>]
             ELSE IF found = NoEntry THEN rest
             ELSE [threw |-> FALSE,
                   links |-> << Element("a", "Organization",
                                        [itemprop |-> "affiliations",
                                         href |-> found.entry.itemid],
                                        << TextNode(ToString(found.entry.index)) >>) >>
                               \o rest.links]

\* encodePerson(person, 'authors', organizations, 'li'). The persons of the
\* model have no emails.
encodePerson(person, organizations) ==
    LET a == IF person.affiliations = None THEN [threw |-> FALSE, links |-> << >>]
             ELSE affiliationLinks(Get(person.affiliations), organizations)
    IN  [threw |-> a.threw,
         elem |-> Element("li", "Person", [itemprop |-> "authors"],
                     << nameElem(person) >>
                       \o namesElem(person.givenNames, "givenNames")
                       \o namesElem(person.familyNames, "familyNames")
                       \o (IF person.affiliations = None THEN << >>
                           ELSE << Element("span", undefined,
                                           [itemprop |-> "affiliations"], a.links) >>))]

\* encodeOrganization(org, property, 'li'): itemid and id from meta, the
\* name in a <span>.
encodeOrganization(name, itemid, property) ==
    Element("li", "Organization",
            [itemid |-> itemid,
             id |-> IF itemid = undefined THEN undefined
                    ELSE SubSeq(itemid, 2, Len(itemid)),
             itemprop |-> property],
            << Element("span", undefined, [itemprop |-> "name"],
                       IF name = undefined THEN << >> ELSE << TextNode(name) >>) >>)

\* encodeAuthorsProperty: the list of the authors and, when there is an
\* indexed organization, the list of the organizations.
encodeAuthorsProperty(authors) ==
    LET orgs == indexOrganizations(allAffiliations(authors), << >>)
        encoded == [i \in 1..Len(authors) |->
                      IF authors[i].type = "Person"
                      THEN encodePerson(authors[i], orgs)
                      ELSE [threw |-> FALSE,
                            elem |-> encodeOrganization(authors[i].name, undefined,
                                                        "authors")]]
    IN  [threw |-> \E i \in 1..Len(authors) : encoded[i].threw,
         orgs |-> orgs,
         elems |-> << Element("ol", undefined, [itemprop |-> "authors"],
                              [i \in 1..Len(authors) |-> encoded[i].elem]) >>
                    \o (IF Len(orgs) > 0
                        THEN << Element("ol", undefined, [itemprop |-> "affiliations"],
                                   [i \in 1..Len(orgs) |->
                                       encodeOrganization(orgs[i].name, orgs[i].itemid,
                                                          undefined)]) >>
                        ELSE << >>)]

\* encodeAuthorsProperty is applied to a list of authors; the elements it
\* returns are kept, or that it threw.
EncodeAuthors(authors) ==
    /\ tpc = "idle"
    /\ \E r \in {encodeAuthorsProperty(authors)} :
          /\ tpc' = IF r.threw THEN "threw" ELSE "encoded"
          /\ tdoc' = Document(TRUE, IF r.threw THEN << >> ELSE r.elems)
    /\ tnode' = [type |-> "Authors", authors |-> authors]
    /\ tout' = NoNode
    /\ tlog' = << >>
    /\ UNCHANGED << slugger, mathJaxPromises, promiseState,
                    lastIndex, hpc, hnode, hopts, dom, own, awaited, html,
                    calls, hprev, modules, pdfVars, ipynbVars, stack, prev, matchVars, convertVars,
                    outcome >>

(***************************************************************************)
(* ipynb decode                                                            *)
(***************************************************************************)

\* The place of an output whose decode has not resolved yet.
Pending == [type |-> "<pending>"]

\* decodeMultilineString: the lines joined without a separator (a source
\* that is one string is the list of that one string).
RECURSIVE decodeMultilineString(_)
decodeMultilineString(source) ==
    IF Len(source) = 0 THEN ""
    ELSE Head(source) \o decodeMultilineString(Tail(source))

\* md.decode(...).content: the markdown codec is outside this source; the
\* model takes the markdown text to hold one paragraph per character.
decodeMarkdownCell(cell) ==
    LET markdown == decodeMultilineString(cell.source)
    IN  [i \in 1..Len(markdown) |-> Paragraph(<< Text(SubSeq(markdown, i, i)) >>)]

\* decodeMimeBundle: the first entry of the bundle decides: an image for
\* the key png, else whatever load makes of the content; '' for no entry.
decodeMimeBundle(data) ==
    IF Len(data) = 0 THEN Text("")
    ELSE IF data[1].mediaType = "png"
    THEN [type |-> "ImageObject",
          contentUrl |-> "data:image/png;base64," \o data[1].content]
    ELSE [type |-> "Loaded", mediaType |-> data[1].mediaType,
          content |-> data[1].content]

\* The callback of outputs.map in decodeOutputs: what one output resolves to.
decodeOutput(output) ==
    CASE output.output_type \in {"execute_result", "display_data",
                                 "update_display_data", "pyout"}
            -> decodeMimeBundle(output.data)
      [] output.output_type = "stream"
            -> Text(decodeMultilineString(output.text))
      [] output.output_type = "error" -> Text("")
      [] OTHER -> [type |-> "CodeBlock", language |-> "json",
                   value |-> "{output_type:" \o output.output_type \o "}"]

\* The results in the order in which the decodes finished.
PromiseAllInFinishOrder(results, i, value) ==
    [results EXCEPT
        ![CHOOSE k \in 1..Len(results) :
              results[k] = Pending /\ \A j \in 1..(k - 1) : results[j] # Pending]
        = value]

\* Promise.all: the value of the i-th promise is the i-th result.
PromiseAll(results, i, value) == [results EXCEPT ![i] = value]

\* ipynb decode is called: decodeNotebookContent enters decodeCells.
IpynbDecode(notebook) ==
    /\ npc = "idle"
    /\ npc' = "cells"
    /\ ncells' = notebook.cells
    /\ ncell' = 1
    /\ blocks' = << >>
    /\ nout' = << >>
    /\ UNCHANGED << htmlVars, modules, pdfVars, stack, prev, matchVars, convertVars, outcome >>

\* One iteration of `for (const cell of cells)`, up to its push or, for a
\* code cell with outputs, up to the await of decodeOutputs: the callbacks
\* of outputs.map have all started and none has resolved.
DecodeCell ==
    /\ npc = "cells"
    /\ ncell <= Len(ncells)
    /\ LET cell == ncells[ncell]
       IN  CASE cell.cell_type = "markdown" ->
                    /\ blocks' = blocks \o decodeMarkdownCell(cell)
                    /\ ncell' = ncell + 1
                    /\ UNCHANGED << npc, nout >>
             [] cell.cell_type = "code" ->
                    IF Len(cell.outputs) > 0
                    THEN /\ npc' = "outputs"
                         /\ nout' = [i \in 1..Len(cell.outputs) |-> Pending]
                         /\ UNCHANGED << blocks, ncell >>
                    ELSE /\ blocks' = Append(blocks,
                                [type |-> "CodeChunk",
                                 text |-> decodeMultilineString(cell.source)])
                         /\ ncell' = ncell + 1
                         /\ UNCHANGED << npc, nout >>
             [] cell.cell_type = "raw" ->
                    /\ ncell' = ncell + 1
                    /\ UNCHANGED << npc, nout, blocks >>
             [] OTHER ->
                    /\ blocks' = Append(blocks,
                            [type |-> "CodeBlock", language |-> "json",
                             value |-> "{cell_type:" \o cell.cell_type \o "}"])
                    /\ ncell' = ncell + 1
                    /\ UNCHANGED << npc, nout >>
    /\ UNCHANGED << ncells, htmlVars, modules, pdfVars, stack, prev, matchVars, convertVars,
                    outcome >>

\* The decode of output i resolves, before or after those of the others.
DecodeOutputResolves(i) ==
    /\ npc = "outputs"
    /\ i \in 1..Len(nout)
    /\ nout[i] = Pending
    /\ nout' = PromiseAll(nout, i, decodeOutput(ncells[ncell].outputs[i]))
    /\ UNCHANGED << npc, ncells, ncell, blocks, htmlVars, modules, pdfVars, stack, prev,
                    matchVars, convertVars, outcome >>

\* Promise.all resolves when every decode has; decodeCodeCell returns the
\* chunk with its outputs and the loop pushes it.
DecodeOutputsResume ==
    /\ npc = "outputs"
    /\ \A i \in 1..Len(nout) : nout[i] # Pending
    /\ blocks' = Append(blocks,
            [type |-> "CodeChunk",
             text |-> decodeMultilineString(ncells[ncell].source),
             outputs |-> nout])
    /\ ncell' = ncell + 1
    /\ npc' = "cells"
    /\ nout' = << >>
    /\ UNCHANGED << ncells, htmlVars, modules, pdfVars, stack, prev, matchVars, convertVars,
                    outcome >>

\* The loop is over: decodeCells returns blocks, the content of the Article.
DecodeCellsReturn ==
    /\ npc = "cells"
    /\ ncell > Len(ncells)
    /\ npc' = "done"
    /\ UNCHANGED << ncells, ncell, blocks, nout, htmlVars, modules, pdfVars, stack, prev,
                    matchVars, convertVars, outcome >>

\* The caller is done with the Article.
IpynbReturn ==
    /\ npc = "done"
    /\ npc' = "idle"
    /\ ncells' = << >>
    /\ ncell' = 1
    /\ blocks' = << >>
    /\ nout' = << >>
    /\ UNCHANGED << htmlVars, modules, pdfVars, stack, prev, matchVars, convertVars, outcome >>

InitIpynb ==
    /\ npc = "idle"
    /\ ncells = << >>
    /\ ncell = 1
    /\ blocks = << >>
    /\ nout = << >>

(***************************************************************************)
(* PDF encode                                                              *)
(***************************************************************************)

\* Bound of the encode calls of the PDF codec.
MaxPdfCalls == 5

\* encode(node, options) is called and suspends at `await bundle(node)`.
PdfEncode ==
    /\ ppc = "idle"
    /\ pcalls < MaxPdfCalls
    /\ pcalls' = pcalls + 1
    /\ ppc' = "bundle"
    /\ ppage' = 0
    /\ UNCHANGED << openPages, htmlVars, ipynbVars, modules, stack, prev, matchVars,
                    convertVars, outcome >>

\* The awaited promise resolves and the call runs on to its next await:
\* bundle, dump, puppeteer.page() (which opens a page), page.setContent,
\* page.pdf, page.close() (which closes it), and the return of load(buffer).
PdfResolve ==
    /\ ppc \in {"bundle", "dump", "page", "setContent", "pdf", "close"}
    /\ ppc' = CASE ppc = "bundle"     -> "dump"
                [] ppc = "dump"       -> "page"
                [] ppc = "page"       -> "setContent"
                [] ppc = "setContent" -> "pdf"
                [] ppc = "pdf"        -> "close"
                [] ppc = "close"      -> "returned"
    /\ ppage' = IF ppc = "page" THEN pcalls ELSE ppage
    /\ openPages' = IF ppc = "page" THEN openPages \cup {pcalls}
                    ELSE IF ppc = "close" THEN openPages \ {ppage}
                    ELSE openPages
    /\ UNCHANGED << pcalls, htmlVars, ipynbVars, modules, stack, prev, matchVars,
                    convertVars, outcome >>

\* The awaited promise rejects: nothing catches it, the call rejects at
\* once and runs no further statement.
PdfReject ==
    /\ ppc \in {"bundle", "dump", "page", "setContent", "pdf", "close"}
    /\ ppc' = "rejected"
    /\ UNCHANGED << ppage, openPages, pcalls, htmlVars, ipynbVars, modules, stack, prev,
                    matchVars, convertVars, outcome >>

\* The caller has the file or the error.
PdfReturn ==
    /\ ppc \in {"returned", "rejected"}
    /\ ppc' = "idle"
    /\ ppage' = 0
    /\ UNCHANGED << openPages, pcalls, htmlVars, ipynbVars, modules, stack, prev,
                    matchVars, convertVars, outcome >>

InitPdf ==
    /\ ppc = "idle"
    /\ ppage = 0
    /\ openPages = {}
    /\ pcalls = 0

NextPdf == PdfEncode \/ PdfResolve \/ PdfReject \/ PdfReturn

(***************************************************************************)
(* Specifications of index.ts                                              *)
(***************************************************************************)

vars == << modules, stack, prev, matchVars, convertVars, outcome, htmlVars, ipynbVars,
          pdfVars >>

NoCall == [set |-> FALSE, args |-> NoMatchArgs, result |-> undefined]

InitIndex ==
    /\ stack = << >>
    /\ prev = NoCall
    /\ margs = NoMatchArgs
    /\ mpc = "idle"
    /\ fileName = undefined
    /\ extName = undefined
    /\ mediaType = undefined
    /\ codec = undefined
    /\ idx = 1
    /\ matchedBy = ""
    /\ testsRun = 0
    /\ fallbackWarns = << >>
    /\ loadWarns = 0
    /\ result = undefined
    /\ cargs = NoArgs
    /\ phases = << >>
    /\ outputFile = NoFile
    /\ written = {}
    /\ outcome = [status |-> "none", value |-> undefined]

NoOpts == [isBundle |-> FALSE, isStandalone |-> FALSE]

NoHtmlCall == [set |-> FALSE, node |-> << >>, opts |-> NoOpts, html |-> << >>]

InitHtmlCodec ==
    /\ slugger = sluggerReset
    /\ mathJaxPromises = << >>
    /\ promiseState = << >>
    /\ lastIndex = 0
    /\ hpc = [p \in Calls |-> "idle"]
    /\ hnode = [p \in Calls |-> << >>]
    /\ hopts = [p \in Calls |-> NoOpts]
    /\ dom = [p \in Calls |-> << >>]
    /\ own = [p \in Calls |-> {}]
    /\ awaited = [p \in Calls |-> << >>]
    /\ html = [p \in Calls |-> << >>]
    /\ calls = 0
    /\ hprev = NoHtmlCall
    /\ tpc = "idle"
    /\ tnode = [type |-> "<none>"]
    /\ tdoc = [hasBody |-> TRUE, children |-> << >>]
    /\ tout = [type |-> "<none>"]
    /\ tlog = << >>
    /\ InitIpynb
    /\ InitPdf

\* match, decode and encode called one after the other, in any environment.
Init ==
    /\ modules \in Environments
    /\ InitIndex
    /\ InitHtmlCodec

Next ==
    \/ \E c \in Contents, f \in Formats, o \in BOOLEAN : CallMatch(c, f, o)
    \/ \E c \in Contents, f \in Formats : CallDecode(c, f)
    \/ \E c \in Contents, f \in Formats : CallEncode(c, f)
    \/ MatchFast
    \/ MatchLoop
    \/ MatchFallback
    \/ MatchReturn
    \/ \E ok \in BOOLEAN : DecodeResume(ok)
    \/ \E ok \in BOOLEAN, file \in EncodedFiles(margs.content) : EncodeResume(ok, file)

Spec == Init /\ [][Next]_vars

\* The environments of the specification that follows two calls: the first
\* registry entry loads and declares nothing, http does or sniffs.
EnvironmentsTwice ==
    {e \in Environments :
        /\ e["elife"] = Plain
        /\ e["http"].load = "OK"
        /\ e["http"].fileNames = {} /\ e["http"].extNames = {}
        /\ e["http"].mediaTypes = {} }

\* The environments of the specification of convert: only md varies.
EnvironmentsConvert ==
    {e \in Environments : e["elife"] = Plain /\ e["http"] = Plain}

\* As Spec, and a caller compares the results of two match calls.
InitTwice ==
    /\ modules \in EnvironmentsTwice
    /\ InitIndex
    /\ InitHtmlCodec

NextTwice ==
    \/ \E c \in Contents, f \in Formats, o \in BOOLEAN : CallMatch(c, f, o)
    \/ \E c \in Contents, f \in Formats : CallDecode(c, f)
    \/ \E c \in Contents, f \in Formats : CallEncode(c, f)
    \/ MatchFast
    \/ MatchLoop
    \/ MatchFallback
    \/ MatchReturn
    \/ MatchReturnRemember
    \/ \E ok \in BOOLEAN : DecodeResume(ok)
    \/ \E ok \in BOOLEAN, file \in EncodedFiles(margs.content) : EncodeResume(ok, file)

SpecTwice == InitTwice /\ [][NextTwice]_vars

\* The output paths and formats of convert.
OutputPaths == {undefined, "./a.MD"}

InitConvert ==
    /\ modules \in EnvironmentsConvert
    /\ InitIndex
    /\ InitHtmlCodec

NextConvert ==
    \/ \E i \in Contents \ {undefined}, o \in OutputPaths, t \in Formats, f \in Formats :
          CallConvert(i, o, t, f)
    \/ MatchFast
    \/ MatchLoop
    \/ MatchFallback
    \/ \E ok \in BOOLEAN : DecodeResume(ok)
    \/ \E ok \in BOOLEAN, file \in EncodedFiles(margs.content) : EncodeResume(ok, file)
    \/ ConvertWrite

SpecConvert == InitConvert /\ [][NextConvert]_vars

\* The environment in which every module loads and declares nothing.
PlainModules == [name \in VarModules |-> Plain]

TheHeading == Heading(undefined, 1, "Intro")

\* Two HTMLCodec.encode calls interleaved at their suspension points, with
\* MathJax settling the promises at any time.
InitHtml ==
    /\ modules = PlainModules
    /\ InitIndex
    /\ InitHtmlCodec

NextHtml ==
    \/ \E p \in Calls, doc \in DocsOver({TheHeading, MathFragment("x")}),
          b \in BOOLEAN, sa \in BOOLEAN : HtmlEncode(p, doc, b, sa, MaxCalls)
    \/ \E p \in Calls : HtmlResumeFromFiles(p)
    \/ \E p \in Calls : HtmlResumeFinish(p)
    \/ \E p \in Calls : HtmlResumeStandalone(p)
    \/ \E id \in 1..Len(promiseState), ok \in BOOLEAN : MathJaxSettle(id, ok)

SpecHtml == InitHtml /\ [][NextHtml]_vars

\* HTMLCodec.encode called again and again, one call at a time, by a caller
\* that compares the HTML of two calls.
NextHtmlSeq ==
    \/ \E doc \in DocsOver({TheHeading, Cite("a.bc"), Cite("ref1")}),
          b \in BOOLEAN, sa \in BOOLEAN : HtmlEncode(1, doc, b, sa, MaxSeqCalls)
    \/ HtmlResumeFromFiles(1)
    \/ HtmlResumeFinish(1)
    \/ HtmlResumeStandalone(1)
    \/ HtmlRemember(1)

SpecHtmlSeq == InitHtml /\ [][NextHtmlSeq]_vars

(***************************************************************************)
(* Properties of match                                                     *)
(***************************************************************************)

\* The fast path produced a codec: an extension is known and the module of
\* that name exports a Codec class.
FastPathLoads == extName # undefined /\ Module(extName).load = "OK"

\* Handler i of the registry loads and one of its tests succeeds.
HandlerMatches(i) ==
    /\ Module(codecList[i]).load = "OK"
    /\ \E k \in 1..4 :
          Tests(codecList[i], margs.content, fileName, extName, mediaType)[k]

NoHandlerMatches ==
    /\ ~FastPathLoads
    /\ \A i \in 1..Len(codecList) : ~HandlerMatches(i)

FirstMatching ==
    CHOOSE i \in 1..Len(codecList) :
        HandlerMatches(i) /\ \A j \in 1..(i - 1) : ~HandlerMatches(j)

\* C2: when the fast path produces no codec, match returns the first handler
\* in codecList order for which any test succeeds.
C2_FirstMatchingHandler ==
    ( /\ mpc = "done"
      /\ ~FastPathLoads
      /\ \E i \in 1..Len(codecList) : HandlerMatches(i) )
    => result = codecList[FirstMatching]

\* C3: when an extension is known and the module of that name loads, match
\* returns that handler at once: no test of any registry handler is
\* evaluated and the registry loop is never entered.
C3_FastPathFirst ==
    (mpc \notin {"idle", "fast"} /\ FastPathLoads) =>
        /\ mpc = "done"
        /\ result = extName
        /\ testsRun = 0
        /\ matchedBy = ""
        /\ fallbackWarns = << >>

C3_Witness ==
    /\ mpc = "done"
    /\ margs.content = "./a.MD"
    /\ margs.format = undefined
    /\ extName = "md"
    /\ result = "md"
    /\ \E i \in 1..Len(codecList) : codecList[i] # "md" /\ HandlerMatches(i)

\* match returned from the fast path: no test ran and nothing fell back.
FastPathTaken ==
    mpc = "done" /\ testsRun = 0 /\ matchedBy = "" /\ fallbackWarns = << >>

\* C4: an explicit format decides the handler: a format with '/' is the
\* media type and the fast path is not taken on the extension of the path;
\* any other format is the extension and the media type is derived from it.
C4_FormatOverridesPath ==
    (mpc = "done" /\ Truthy(margs.format)) =>
        IF includes(margs.format, "/")
        THEN mediaType = margs.format /\ ~FastPathTaken
        ELSE extName = margs.format /\ mediaType = mimeGetType(margs.format)

C6_PromisesSettledAtReturn ==
    \A p \in Calls :
        hpc[p] = "returned" =>
            /\ \A id \in own[p] : promiseState[id] # "pending"
            /\ \A i \in 1..Len(html[p]) :
                  html[p][i].tag = "span" => html[p][i].content # "pending"

C6_Witness ==
    \E p \in Calls :
        /\ hpc[p] = "returned"
        /\ Cardinality(own[p]) = 2
        /\ \E i \in 1..Len(html[p]) :
              html[p][i].tag = "span" /\ html[p][i].content = "failed"
        /\ \E q \in Calls : hpc[q] = "finish" /\ own[q] # {}

\* C7: each encode call awaits exactly the promises its own tree walk
\* created, under every interleaving of two calls.
C7_AwaitsExactlyOwnPromises ==
    \A p \in Calls :
        hpc[p] \in {"finish", "standalone", "returned"} =>
            {awaited[p][i] : i \in 1..Len(awaited[p])} = own[p]

C7_Witness ==
    /\ hpc[1] = "finish"
    /\ hpc[2] = "finish"
    /\ hopts[1].isBundle
    /\ hopts[2].isBundle
    /\ own[1] # {}
    /\ own[2] # {}
    /\ \E id \in own[1] : promiseState[id] = "pending"
    /\ \E id \in own[2] : promiseState[id] = "pending"

\* The ids of the headings in a list of elements.
HeadingIds(elems) ==
    LET hs == SelectSeq(elems, LAMBDA e : e.tag # "span" /\ e.tag # "#text" /\ e.tag # "cite")
    IN  [i \in 1..Len(hs) |-> hs[i].id]

\* The elements an encode call of the node builds when it runs alone.
AloneDom(node) ==
    encodeNodes(node, WalkState(sluggerReset, << >>, << >>, 0)).dom

\* C8: the heading ids of each of two interleaved encode calls are those the
\* call produces when it runs alone.
C8_HeadingIdsAsAlone ==
    \A p \in Calls :
        hpc[p] = "returned" => HeadingIds(html[p]) = HeadingIds(AloneDom(hnode[p]))

\* C9: an encode call of the node and options of a remembered earlier call
\* returns the same HTML, whatever was encoded in between.
C9_SameNodeSameHtml ==
    ( /\ hpc[1] = "returned"
      /\ hprev.set
      /\ hprev.node = hnode[1]
      /\ hprev.opts = hopts[1] )
    => html[1] = hprev.html

(***************************************************************************)
(* Properties of convert                                                   *)
(***************************************************************************)

PhaseOrder == << "resolveInput", "decode", "resolveOutput", "encode", "write" >>

\* The phases completed so far are an initial part of PhaseOrder.
PhasesInOrder ==
    /\ Len(phases) <= Len(PhaseOrder)
    /\ \A i \in 1..Len(phases) : phases[i] = PhaseOrder[i]

Wrote == \E i \in 1..Len(phases) : phases[i] = "write"

ConvertOver == cargs # NoArgs /\ stack = << >>

\* C10 as stated: the phases come in order, the file is written only with
\* an outputPath, and a call without outputPath that returns has written
\* nothing and returns the dumped string.
C10_ConvertPhases ==
    /\ PhasesInOrder
    /\ Wrote => Truthy(cargs.outputPath)
    /\ (ConvertOver /\ outcome.status = "returned" /\ ~Truthy(cargs.outputPath)) =>
          /\ ~Wrote
          /\ outcome.value = vfileDump(outputFile)

\* C10 amended: as above, but what a call that returns returns is the
\* dumped string when the encoded file has non-empty contents and the path
\* of the file otherwise, with or without outputPath.
C10_ConvertPhasesAmended ==
    /\ PhasesInOrder
    /\ Wrote <=> (ConvertOver /\ outcome.status = "returned" /\ Truthy(cargs.outputPath))
    /\ (ConvertOver /\ outcome.status = "returned") =>
          /\ Len(phases) >= 4
          /\ Wrote => cargs.outputPath \in written
          /\ outcome.value = IF outputFile.contents \notin {undefined, ""}
                             THEN vfileDump(outputFile) ELSE outputFile.path

C10_Witness ==
    /\ ConvertOver
    /\ outcome.status = "returned"
    /\ phases = PhaseOrder
    /\ cargs.outputPath = "./a.MD"
    /\ cargs.to = "text/html"
    /\ outcome.value = "text"
    /\ written = {"./a.MD"}

\* Neither the fast path nor any registry handler matches the content and
\* format of a match call for an input.
MatchesNothing(content, format) ==
    LET r == Resolve(content, format, FALSE)
    IN  /\ ~(r.extName # undefined /\ Module(r.extName).load = "OK")
        /\ \A i \in 1..Len(codecList) :
              ~( /\ Module(codecList[i]).load = "OK"
                 /\ \E k \in 1..4 :
                       Tests(codecList[i], content, r.fileName, r.extName, r.mediaType)[k] )

\* C11: a convert call without from, to and outputPath, whose input matches
\* no codec and whose decoding succeeded, returns the input string instead
\* of raising.
C11_ConvertNoHintsReturnsInput ==
    ( /\ ConvertOver
      /\ cargs.from = undefined /\ cargs.to = undefined
      /\ cargs.outputPath = undefined
      /\ MatchesNothing(cargs.input, undefined)
      /\ Len(phases) >= 2 )
    => (outcome.status = "returned" /\ outcome.value = cargs.input)

\* handled called one call after the other, in any environment.
NextHandled ==
    \/ \E c \in Contents, f \in Formats : CallHandled(c, f)
    \/ MatchFast
    \/ MatchLoop
    \/ MatchFallback
    \/ HandledResume

SpecHandled == Init /\ [][NextHandled]_vars

\* C20: handled resolves to true exactly when a codec exists for the file
\* path or the media type, that is when the module of the extension loads
\* or a handler of the registry matches, and to false when none does.
C20_HandledIffCodecExists ==
    (outcome.status = "returned" /\ "args" \in DOMAIN outcome) =>
        (outcome.value <=> ~MatchesNothing(outcome.args.content, outcome.args.format))

(***************************************************************************)
(* Specification and properties of a pass through the HTML codec           *)
(***************************************************************************)

\* Bounds of the texts: characters per string, strings per paragraph.
MaxTextLen == 1
MaxTexts == 2

\* The characters of the texts: a letter and the characters HTML escapes.
TextChars == {"a", "&", "<", ">", "\"", "'"}

RECURSIVE StringsUpTo(_)
StringsUpTo(n) ==
    IF n = 0 THEN {""}
    ELSE StringsUpTo(n - 1) \cup {s \o c : s \in StringsUpTo(n - 1), c \in TextChars}

Texts == {Text(s) : s \in StringsUpTo(MaxTextLen)}

\* The paragraphs of at most MaxTexts strings.
Paragraphs ==
    {Paragraph(<< >>)}
        \cup {Paragraph(c) : c \in UNION {[1..n -> Texts] : n \in 1..MaxTexts}}

\* Bound of the depth of a heading.
MaxDepth == 7

\* The headings: with or without content, with or without an id of their
\* own, of every depth from the default 0.
Headings ==
    {Heading(id, d, t) : id \in {undefined, "x"}, d \in 0..MaxDepth, t \in {"", "Intro"}}

\* Bounds of the lists: the items of a list and the positions of the items.
MaxItems == 2
MaxPosition == 3

\* The list items: with or without a position; without url and checkbox or
\* with both; with one paragraph, or a string and an empty paragraph.
ListItems ==
    {ListItem(p, uc[1], uc[2], content) :
        p \in {None} \cup {Some(n) : n \in 1..MaxPosition},
        uc \in {<< undefined, None >>, << "u", Some(TRUE) >>},
        content \in {<< Paragraph(<< Text("a") >>) >>,
                     << Text("a"), Paragraph(<< >>) >>}}

Lists ==
    {List(o, << >>) : o \in {"unordered", "ascending"}}
        \cup {List(o, items) : o \in {"unordered", "ascending"},
                               items \in UNION {[1..n -> ListItems] : n \in 1..MaxItems}}

\* The nodes of types without an encoder of their own.
Entities ==
    {Entity(t, s) : t \in {"Foo", "Bar"}, s \in {"", "a", "a a", "a  a", "<a", " a "}}

\* The articles: with or without a title, empty or with a paragraph.
Articles ==
    {Article(t, c) : t \in {undefined, "T"}, c \in {<< >>, << Paragraph(<< Text("a") >>) >>}}

\* The articles and list items that have properties of their type only, and
\* those with one or two properties more.
Destructured ==
    LET plain == Articles \cup ListItems
    IN  plain \cup {With(n, "foo") : n \in plain}
              \cup {With(With(n, "foo"), "bar") : n \in plain}

\* The articles of two headings with the same text, each with an id of its
\* own or without.
HeadingArticles ==
    {Article(undefined, << Heading(a, 1, "Intro"), Heading(b, 1, "Intro") >>) :
        a \in {undefined, "intro", "x"}, b \in {undefined, "intro", "x"}}

TripNodes ==
    Paragraphs \cup Headings \cup Lists \cup Entities \cup Destructured
        \cup HeadingArticles

\* The documents given to decode as they are: articles with and without a
\* headline, anchors with and without href.
P(text) == Element("p", undefined, NoAttrs, << TextNode(text) >>)
ParsedArticles ==
    {Document(TRUE, << Element("article", undefined, NoAttrs, c) >>) :
        c \in {<< >>, << P("a") >>,
               << Element("h1", undefined, [itemprop |-> "headline"], << TextNode("T") >>),
                  P("a") >>}}
ParsedAnchors ==
    {Document(TRUE, << Element("p", undefined, NoAttrs, << a >>) >>) :
        a \in {Element("a", undefined, NoAttrs, << TextNode("a") >>),
               Element("a", undefined, [href |-> "u"], << TextNode("a") >>)}}

\* Documents without <body> (a frameset document) and with an empty one;
\* with nothing, one node and two nodes to decode; with code blocks and code
\* chunks that have their <code> element or slot and that do not.
Code(attrs, text) == Element("code", undefined, attrs, << TextNode(text) >>)
ParsedBodies ==
    {Document(FALSE, << >>)}
        \cup {Document(TRUE, c) :
                c \in {<< >>,
                       << Element("script", undefined, NoAttrs, << >>) >>,
                       << Element("nav", undefined, NoAttrs, << >>) >>,
                       << P("a") >>,
                       << P("a"), P("a  a") >>,
                       << Element("pre", undefined, NoAttrs,
                                  << Code([class |-> "language-r"], "a  a") >>) >>,
                       << Element("pre", undefined, NoAttrs, << TextNode("a") >>) >>,
                       << Element("pre", "CodeBlock", NoAttrs, << TextNode("a") >>) >>,
                       << Element("div", "CodeBlock", NoAttrs, << >>) >>,
                       << Element("stencila-code-chunk", undefined, NoAttrs,
                                  << Element("pre", undefined, [slot |-> "text"],
                                             << Code(NoAttrs, "a") >>) >>) >>,
                       << Element("stencila-code-chunk", undefined, NoAttrs, << >>) >>,
                       << P("a"), Element("stencila-code-chunk", "CodeChunk", NoAttrs,
                                          << Code(NoAttrs, "a") >>) >>}}

\* Bodies whose children decode to no node, one node and many nodes: arrays,
\* containers that are unwrapped, scripts, and white space that collapses to
\* an empty text in a paragraph and in a <div>.
ArrayElement(text) ==
    Element("span", "Array", NoAttrs, IF text = "" THEN << >> ELSE << TextNode(text) >>)
Div(children) == Element("div", undefined, NoAttrs, children)
Script == Element("script", undefined, NoAttrs, << TextNode("x") >>)
FlatBodies ==
    {Document(TRUE, c) :
        c \in {<< P("a"), ArrayElement("[1,2]"), P("b") >>,
               << ArrayElement(""), P("a") >>,
               << Div(<< Script, P("a"), ArrayElement("[1]") >>), Script, P("b") >>,
               << Div(<< Div(<< P("a"), P("b") >>), P("c") >>), P("d") >>,
               << Div(<< >>), P("a"), Element("time", undefined, NoAttrs, << >>), P("b") >>,
               << Element("p", undefined, NoAttrs, << Code(NoAttrs, "a"), TextNode(" ") >>),
                  P("b") >>,
               << Div(<< Code(NoAttrs, "a"), TextNode(" ") >>), P("b") >>}}

\* Bodies with elements that have no handler and no itemtype, empty or not,
\* between paragraphs, inside a container and inside a paragraph; with
\* a script in their place; with containers around paragraphs and text.
NoHandlerElement(tag, children) == Element(tag, undefined, NoAttrs, children)
HandlerBodies ==
    {Document(TRUE, c) :
        c \in {<< P("a"), NoHandlerElement("nav", << >>), P("b") >>,
               << P("a"), NoHandlerElement("nav", << P("c") >>), P("b") >>,
               << NoHandlerElement("section", << >>), P("a"),
                  NoHandlerElement("nav", << >>), P("b") >>,
               << P("a"), Div(<< NoHandlerElement("nav", << >>), P("b") >>) >>,
               << P("a"), Script, P("b") >>,
               << P("a"), Element("time", undefined, NoAttrs, << TextNode("b") >>),
                  Element("span", undefined, NoAttrs, << Code(NoAttrs, "c") >>) >>,
               << Div(<< P("a"), P("b") >>), P("c") >>}}

\* Tables as the parser builds them: rows in a <tbody>, header rows in a
\* <thead> or not, rows of <th>, of <td> and of both.
El(tag, children) == Element(tag, undefined, NoAttrs, children)
Cell(tag, text) == El(tag, << TextNode(text) >>)
TableBodies ==
    {Document(TRUE, << El("table", c) >>) :
        c \in {<< El("tbody", << El("tr", << Cell("td", "1"), Cell("td", "2") >>),
                                 El("tr", << Cell("td", "3"), Cell("td", "4") >>) >>) >>,
               << El("thead", << El("tr", << Cell("th", "x"), Cell("th", "y") >>) >>),
                  El("tbody", << El("tr", << Cell("td", "1"), Cell("td", "2") >>) >>) >>,
               << El("tbody", << El("tr", << Cell("th", "x"), Cell("td", "1") >>),
                                 El("tr", << Cell("th", "y"), Cell("td", "2") >>) >>) >>,
               << El("tbody", << El("tr", << Cell("th", "x"), Cell("th", "y") >>),
                                 El("tr", << Cell("td", "1"), Cell("td", "2") >>) >>) >>}}

\* Datatable elements: as encodeDatatable writes them, with a header of one
\* and of two columns; without <thead>; without rows; without <table>.
DatatableElement(children) == Element("div", "Datatable", NoAttrs, children)
DatatableBodies ==
    {Document(TRUE, << DatatableElement(c) >>) :
        c \in {<< >>,
               << El("table", << El("thead", << El("tr", << Cell("th", "x") >>) >>),
                                 El("tbody", << El("tr", << Cell("td", "1") >>),
                                                El("tr", << Cell("td", "2") >>) >>) >>) >>,
               << El("table", << El("thead", << El("tr", << Cell("th", "x"),
                                                            Cell("th", "y") >>) >>),
                                 El("tbody", << El("tr", << Cell("td", "1"),
                                                            Cell("td", "2") >>) >>) >>) >>,
               << El("table", << El("thead", << El("tr", << Cell("th", "x") >>) >>),
                                 El("tbody", << >>) >>) >>,
               << El("table", << El("tbody", << El("tr", << Cell("td", "1"),
                                                            Cell("td", "2") >>),
                                                El("tr", << Cell("td", "3"),
                                                            Cell("td", "4") >>) >>) >>) >>}}

ParsedDocuments ==
    ParsedArticles \cup ParsedAnchors \cup ParsedBodies \cup FlatBodies \cup HandlerBodies
        \cup TableBodies \cup DatatableBodies

\* The notebooks: with a title, with an empty one, without.
Notebooks ==
    {[metadata |-> [title |-> t], cells |-> c] :
        t \in {undefined, "", "T"}, c \in {<< >>, << [cell_type |-> "raw"] >>}}

\* A call starts when no other is under way.
NextTrip ==
    \/ tpc = "idle" /\ \E node \in TripNodes : TripEncode(node)
    \/ tpc = "idle" /\ \E doc \in ParsedDocuments : TripParse(doc)
    \/ tpc = "idle" /\ \E notebook \in Notebooks : TripNotebook(notebook)
    \/ TripDecode
    \/ TripReturn

SpecTrip == InitHtml /\ [][NextTrip]_vars

\* C12: decoding the HTML of a tree of Paragraph nodes and strings gives a
\* tree equal to the one encoded.
C12_ParagraphRoundTrip ==
    (tpc = "decoded" /\ tnode.type = "Paragraph") => tout = tnode

\* The heading under way has content and the depth d.
TripHeading(d) ==
    /\ tnode.type = "Heading"
    /\ tnode.text # ""
    /\ tnode.depth = d

\* C13: a heading with content and a depth d from 1 to 5 is encoded as an
\* element of level d + 1 and decoded with the depth d; a depth of 6 or more
\* is encoded at level 6 and decoded with the depth 5.
C13_HeadingDepthRoundTrip ==
    \A d \in 1..MaxDepth :
        /\ (tpc \in {"encoded", "decoded"} /\ TripHeading(d)) =>
               /\ Len(tdoc.children) = 1
               /\ tdoc.children[1].tag = "h" \o ToString(IF d <= 5 THEN d + 1 ELSE 6)
        /\ (tpc = "decoded" /\ TripHeading(d)) =>
               /\ tout.type = "Heading"
               /\ tout.depth = (IF d <= 5 THEN d ELSE 5)

\* A heading of depth 7 came back with the depth 5.
C13_Witness ==
    /\ tpc = "decoded"
    /\ TripHeading(7)
    /\ tdoc.children[1].tag = "h6"
    /\ tout.type = "Heading"
    /\ tout.depth = 5

\* The content of the <meta itemprop="position"> of the i-th <li> emitted.
EmittedPosition(i) == tdoc.children[1].children[i].children[1].attrs.content

\* C14: the list item at the 0-based index i is encoded with the position
\* i + 1 when it has no position, and with its own position when it has one.
C14_ListItemPositions ==
    (tpc \in {"encoded", "decoded"} /\ tnode.type = "List") =>
        /\ Len(tdoc.children) = 1
        /\ Len(tdoc.children[1].children) = Len(tnode.items)
        /\ \A k \in 1..Len(tnode.items) :
              /\ tdoc.children[1].children[k].tag = "li"
              /\ tdoc.children[1].children[k].children[1].attrs.itemprop = "position"
              /\ EmittedPosition(k) =
                    (IF tnode.items[k].position = None THEN ToString(k)
                     ELSE ToString(Get(tnode.items[k].position)))

\* A list of two items was encoded: the first has the position 3 and kept
\* it, the second has none and got the position 2.
C14_Witness ==
    /\ tpc = "encoded"
    /\ tnode.type = "List"
    /\ Len(tnode.items) = 2
    /\ tnode.items[1].position = Some(3)
    /\ tnode.items[2].position = None
    /\ EmittedPosition(1) = "3"
    /\ EmittedPosition(2) = "2"

\* The node under way has a type without an encoder of its own.
TripEntity == tnode.type \in {"Foo", "Bar"}

\* C15: a node of a type encodeNode has no case for is encoded without an
\* exception as one container element whose text content is the JSON5 of
\* the node, and decoding that element gives a node equal to the original.
C15_EntityRoundTrip ==
    /\ (tpc # "idle" /\ TripEntity) =>
          /\ tpc # "threw"
          /\ Len(tdoc.children) = 1
          /\ tdoc.children[1].tag = "span"
          /\ textContent(tdoc.children[1].children) = JSON5stringify(tnode)
    /\ (tpc = "decoded" /\ TripEntity) => tout = tnode

\* The properties the node under way has besides those of its type.
TripMore == {k \in DOMAIN tnode : \E i \in 1..Len(MoreProperties) : MoreProperties[i] = k}

\* The loss warnings of the encode call.
LossWarnings == SelectSeq(tlog, LAMBDA w : StartsWithAt(w, 1, "html:encode: Properties of"))

\* C16: encoding a node of a type that is encoded by destructuring (Article,
\* ListItem) gives no loss warning when the node has only properties the
\* encoder places, and exactly one, naming the property, when it has one
\* property more.
C16_LossPerUnplacedField ==
    (tpc = "encoded" /\ tnode.type \in {"Article", "ListItem"}) =>
        /\ TripMore = {} => LossWarnings = << >>
        /\ TripMore = {"foo"} =>
              /\ Len(LossWarnings) = 1
              /\ LossWarnings[1] =
                    "html:encode: Properties of " \o tnode.type \o " not supported: foo"

\* The decoded node has no value for the property.
Absent(node, property) ==
    property \notin DOMAIN node \/ node[property] = undefined

\* A decoder recorded a loss.
DecodeLoss ==
    \E i \in 1..Len(tlog) :
        StartsWithAt(tlog[i], 1, "html:decode:") \/ StartsWithAt(tlog[i], 1, "ipynb:decode:")

\* The document under way is a notebook, an <article>, a <p> around an <a>.
TripIsNotebook == "metadata" \in DOMAIN tdoc
TripIsArticle ==
    /\ ~TripIsNotebook /\ tnode = NoNode
    /\ Len(tdoc.children) = 1 /\ tdoc.children[1].tag = "article"
TripIsAnchor ==
    /\ ~TripIsNotebook /\ tnode = NoNode
    /\ Len(tdoc.children) = 1 /\ tdoc.children[1].tag = "p"
    /\ Len(tdoc.children[1].children) = 1 /\ tdoc.children[1].children[1].tag = "a"

\* C17: a property the source does not have is absent in the decoded node,
\* or the substitution is recorded as a loss: the title of an <article>
\* without a headline, the target of an <a> without href, the title of a
\* notebook without one.
C17_AbsentStaysAbsent ==
    tpc = "decoded" =>
        /\ (TripIsArticle /\ propSelector(tdoc.children, "headline") = << >>) =>
              (Absent(tout, "title") \/ DecodeLoss)
        /\ (TripIsAnchor /\ Attr(tdoc.children[1].children[1], "href") = undefined) =>
              (Absent(tout.content[1], "target") \/ DecodeLoss)
        /\ (TripIsNotebook /\ tdoc.metadata.title = undefined) =>
              (Absent(tout, "title") \/ DecodeLoss)

\* The ids of the heading elements among the nodes, in document order.
RECURSIVE headingIdsOf(_)
headingIdsOf(nodes) ==
    IF Len(nodes) = 0 THEN << >>
    ELSE LET n == Head(nodes)
         IN  (IF n.tag = "#text" THEN << >>
              ELSE (IF headingLevel(n.tag) # -1 /\ "id" \in DOMAIN n THEN << n.id >>
                    ELSE << >>) \o headingIdsOf(n.children))
             \o headingIdsOf(Tail(nodes))

\* The ids the headings of the content of the node under way carry themselves.
OwnIds ==
    LET hs == SelectSeq(tnode.content, LAMBDA n : n.type = "Heading" /\ n.id # undefined)
    IN  [i \in 1..Len(hs) |-> hs[i].id]

Distinct(seq) == \A i, j \in 1..Len(seq) : i # j => seq[i] # seq[j]

\* C18: the ids of the headings in the HTML of one encode call are pairwise
\* distinct, also when some headings of the source carry an id of their own
\* (no two the same) and the others get theirs from the slugger.
C18_HeadingIdsDistinct ==
    (tpc = "encoded" /\ tnode.type = "Article" /\ Distinct(OwnIds)) =>
        Distinct(headingIdsOf(tdoc.children))

\* What the handlers give for the body of the document under way.
TripBody == decodeDocument(collapse(tdoc))

\* C19: HTMLCodec.decode throws only for a document without <body>; for a
\* document with one it returns, '' and a warning when no node could be
\* decoded, the node itself when there is exactly one.
C19_DecodeThrowsOnlyWithoutBody ==
    /\ tpc = "decodeThrew" => ~tdoc.hasBody
    /\ (tpc = "decoded" /\ ~TripIsNotebook) =>
          /\ tdoc.hasBody
          /\ Len(TripBody.nodes) = 0 =>
                /\ tout = Text("")
                /\ Len(tlog) > 0
                /\ tlog[Len(tlog)] = "No node could be decoded from HTML"
          /\ Len(TripBody.nodes) = 1 => tout = TripBody.nodes[1]

(***************************************************************************)
(* Properties of the registry iteration                                    *)
(***************************************************************************)

\* The modules match has tried to load whose import failed with an error
\* other than MODULE_NOT_FOUND: the extension module and handlers 1..idx.
LoadErrors ==
    (IF extName # undefined /\ Module(extName).load = "ERROR" THEN 1 ELSE 0)
    + Cardinality({i \in 1..idx : Module(codecList[i]).load = "ERROR"})

\* C21: a handler that cannot be loaded or exports no Codec class is skipped
\* and every later handler is still tried, also when it is the first of the
\* registry: a match that falls back to txt has gone through the whole of
\* codecList, and has logged one warning per load error that is not
\* MODULE_NOT_FOUND.
C21_FailingHandlerSkipped ==
    mpc = "fallback" =>
        /\ idx = Len(codecList)
        /\ loadWarns = LoadErrors

(***************************************************************************)
(* Properties of MathJax typesetting                                       *)
(***************************************************************************)

\* The positions of the Math nodes of call p whose typesetting failed.
FailedMath(p) ==
    {i \in 1..Len(dom[p]) :
        dom[p][i].tag = "span" /\ promiseState[dom[p][i].promise] = "failed"}

\* C22: a failed typesetting of one Math node does not reject the encode
\* call; when the call has returned, the document holds one element per
\* node, every other node is encoded as it is without the failure, and every
\* other typesetting promise of the call was awaited and shows its result.
C22_TypesetFailureIsLocal ==
    \A p \in Calls :
        /\ hpc[p] # "rejected"
        /\ (hpc[p] = "returned" /\ FailedMath(p) # {}) =>
              /\ Len(html[p]) = Len(hnode[p])
              /\ \A i \in 1..Len(html[p]) \ FailedMath(p) :
                    IF dom[p][i].tag = "span"
                    THEN html[p][i] = [tag |-> "span", content |-> "rendered"]
                    ELSE html[p][i] = dom[p][i]

C22_Witness ==
    \E p \in Calls :
        /\ hpc[p] = "returned"
        /\ Len(hnode[p]) = 2
        /\ FailedMath(p) = {1}
        /\ html[p][2] = [tag |-> "span", content |-> "rendered"]

(***************************************************************************)
(* Properties of sibling order                                             *)
(***************************************************************************)

\* Bounds of the notebooks: the cells of a notebook, the outputs of a cell.
MaxCells == 2
MaxOutputs == 2

Outputs ==
    { [output_type |-> "stream", text |-> << "o", "1" >>],
      [output_type |-> "error"],
      [output_type |-> "execute_result",
       data |-> << [mediaType |-> "text/plain", content |-> "r"] >>],
      [output_type |-> "pyout", data |-> << [mediaType |-> "png", content |-> "AA"] >>],
      [output_type |-> "foo"] }

Cells ==
    { [cell_type |-> "markdown", source |-> << "a", "b" >>],
      [cell_type |-> "raw"],
      [cell_type |-> "heading"],
      [cell_type |-> "code", source |-> << "x" >>, outputs |-> << >>] }
    \cup { [cell_type |-> "code", source |-> << "y" >>, outputs |-> o] :
              o \in UNION {[1..n -> Outputs] : n \in 1..MaxOutputs} }

OrderNotebooks ==
    {[metadata |-> [title |-> "T"], cells |-> c] :
        c \in UNION {[1..n -> Cells] : n \in 1..MaxCells}}

\* The articles of two or three headings with texts of their own.
OrderArticles ==
    {Article("T", c) :
        c \in UNION {[1..n -> {Heading(undefined, 1, t) : t \in {"a", "b", "c"}}] :
                        n \in 2..3}}

\* One ipynb decode or one pass through the HTML codec at a time; the
\* decodes of the outputs of a cell resolve in any order.
NextOrder ==
    \/ (npc = "idle" /\ tpc = "idle") /\ \E notebook \in OrderNotebooks : IpynbDecode(notebook)
    \/ DecodeCell
    \/ \E i \in 1..MaxOutputs : DecodeOutputResolves(i)
    \/ DecodeOutputsResume
    \/ DecodeCellsReturn
    \/ IpynbReturn
    \/ (npc = "idle" /\ tpc = "idle") /\ \E node \in OrderArticles : TripEncode(node)
    \/ TripDecode
    \/ TripReturn

SpecOrder == InitHtml /\ [][NextOrder]_vars

\* What one cell contributes to the content, its outputs in output order.
CellBlocks(cell) ==
    CASE cell.cell_type = "markdown" -> decodeMarkdownCell(cell)
      [] cell.cell_type = "code" ->
            IF Len(cell.outputs) = 0
            THEN << [type |-> "CodeChunk", text |-> decodeMultilineString(cell.source)] >>
            ELSE << [type |-> "CodeChunk", text |-> decodeMultilineString(cell.source),
                     outputs |-> [i \in 1..Len(cell.outputs) |->
                                     decodeOutput(cell.outputs[i])]] >>
      [] cell.cell_type = "raw" -> << >>
      [] OTHER -> << [type |-> "CodeBlock", language |-> "json",
                      value |-> "{cell_type:" \o cell.cell_type \o "}"] >>

\* The contributions of the cells, in cell order.
RECURSIVE InCellOrder(_)
InCellOrder(cells) ==
    IF Len(cells) = 0 THEN << >>
    ELSE CellBlocks(Head(cells)) \o InCellOrder(Tail(cells))

\* The texts of the headings among the nodes or elements, in their order.
HeadingTexts(nodes) ==
    LET hs == SelectSeq(nodes, LAMBDA n : n.type = "Heading")
    IN  [i \in 1..Len(hs) |-> hs[i].text]

ElementTexts(elems) ==
    LET hs == SelectSeq(elems, LAMBDA e : e.tag = "h2")
    IN  [i \in 1..Len(hs) |-> textContent(hs[i].children)]

\* C23: sibling order is kept within one decode or encode: the blocks of an
\* ipynb decode are the contributions of the cells in cell order, with the
\* outputs of each code cell in output order whichever decode resolved
\* first; the HTML of an article holds its headings in content order and
\* the article decoded from it holds them in that order too.
C23_SiblingOrder ==
    /\ npc = "done" => blocks = InCellOrder(ncells)
    /\ npc \in {"cells", "outputs"} =>
          blocks = InCellOrder(SubSeq(ncells, 1, ncell - 1))
    /\ (tpc \in {"encoded", "decoded"} /\ tnode \in OrderArticles) =>
          ElementTexts(tdoc.children[1].children) = HeadingTexts(tnode.content)
    /\ (tpc = "decoded" /\ tnode \in OrderArticles) =>
          HeadingTexts(tout.content) = HeadingTexts(tnode.content)

\* A markdown cell, then a code cell of two outputs: three blocks.
C23_Witness ==
    /\ npc = "done"
    /\ Len(ncells) = 2
    /\ ncells[1].cell_type = "markdown"
    /\ ncells[2].cell_type = "code"
    /\ Len(ncells[2].outputs) = 2
    /\ ncells[2].outputs[1].output_type = "stream"
    /\ ncells[2].outputs[2].output_type = "error"
    /\ Len(blocks) = 3
    /\ blocks[3].outputs = << Text("o1"), Text("") >>

(***************************************************************************)
(* Properties of decodeNodes                                               *)
(***************************************************************************)

\* The native nodes that contribute a node each, in document order: the
\* children but the scripts and the elements without handler (<nav> and
\* <section> in the model), a container standing for its own children.
RECURSIVE Contributors(_)
Contributors(nodes) ==
    IF Len(nodes) = 0 THEN << >>
    ELSE LET n == Head(nodes)
         IN  (IF n.tag \in {"script", "nav", "section"} THEN << >>
              ELSE IF n.tag \in {"div", "time"} \/ (n.tag = "span" /\ n.itemtype = undefined)
              THEN Contributors(n.children)
              ELSE << n >>)
             \o Contributors(Tail(nodes))

\* The type of the node a contributor decodes to.
KindOf(n) ==
    CASE n.tag = "#text" -> "Text"
      [] n.tag = "p"     -> "Paragraph"
      [] n.tag = "code"  -> "CodeFragment"
      [] n.tag = "span"  -> n.itemtype

EmptyText(n) == n.tag = "#text" /\ n.data = ""

\* C24: the decoded nodes are the contributions of the native children in
\* child order: none for a script or an empty container, the decoded children
\* of a container in its place, one node for an array element, whose items
\* are not spliced; the content of a paragraph is its decoded children but
\* the empty strings, which a <div> keeps.
C24_FlattenOneLevel ==
    (tpc = "decoded" /\ tdoc \in FlatBodies) =>
        LET from == Contributors(collapse(tdoc).children)
        IN  /\ tout.type = "Array"
            /\ Len(tout.items) = Len(from)
            /\ \A i \in 1..Len(from) :
                  /\ tout.items[i].type = KindOf(from[i])
                  /\ EmptyText(from[i]) => tout.items[i] = Text("")
                  /\ from[i].tag = "p" =>
                        LET kept == SelectSeq(from[i].children, LAMBDA n : ~EmptyText(n))
                        IN  /\ Len(tout.items[i].content) = Len(kept)
                            /\ \A j \in 1..Len(kept) :
                                  /\ tout.items[i].content[j].type = KindOf(kept[j])
                                  /\ tout.items[i].content[j] # Text("")

\* An array of two items between two paragraphs came back as one node.
C24_Witness ==
    /\ tpc = "decoded"
    /\ tdoc = Document(TRUE, << P("a"), ArrayElement("[1,2]"), P("b") >>)
    /\ tout = ArrayNode(<< Paragraph(<< Text("a") >>),
                           ArrayNode(<< Number("1"), Number("2") >>),
                           Paragraph(<< Text("b") >>) >>)

\* The warnings for the elements without handler that decodeNode is given,
\* in document order: those among the children and inside containers.
RECURSIVE NoHandlerWarnings(_)
NoHandlerWarnings(nodes) ==
    IF Len(nodes) = 0 THEN << >>
    ELSE LET n == Head(nodes)
         IN  (IF n.tag \in {"nav", "section"}
              THEN << "No handler for HTML element <" \o n.tag \o ">" >>
              ELSE IF n.tag \in {"div", "time", "span"} THEN NoHandlerWarnings(n.children)
              ELSE << >>)
             \o NoHandlerWarnings(Tail(nodes))

\* C25: an element without handler and itemtype gives no node and exactly
\* one warning, whatever it holds, and the siblings before and after it are
\* decoded; a script gives no node and no warning; a <div>, <span> or <time>
\* gives the nodes of its children.
C25_NoHandlerSkipped ==
    tdoc \in HandlerBodies =>
        LET from == Contributors(collapse(tdoc).children)
        IN  tpc \in {"decoded", "decodeThrew"} =>
            /\ tpc = "decoded"
            /\ tout.type = "Array"
            /\ Len(tout.items) = Len(from)
            /\ \A i \in 1..Len(from) :
                  /\ tout.items[i].type = KindOf(from[i])
                  /\ from[i].tag = "p" =>
                        tout.items[i] = Paragraph(<< Text(from[i].children[1].data) >>)
            /\ tlog = NoHandlerWarnings(tdoc.children)

\* A <nav> around a paragraph, between two paragraphs: both decoded, one
\* warning.
C25_Witness ==
    /\ tpc = "decoded"
    /\ tdoc = Document(TRUE, << P("a"), NoHandlerElement("nav", << P("c") >>), P("b") >>)
    /\ tout = ArrayNode(<< Paragraph(<< Text("a") >>), Paragraph(<< Text("b") >>) >>)
    /\ tlog = << "No handler for HTML element <nav>" >>

(***************************************************************************)
(* Properties of tables                                                    *)
(***************************************************************************)

\* The rows of a table element: the <tr> children of its sections.
RowsOf(table) ==
    querySelectorAll(table.children, "tr")

\* The cells of a row, header cells and body cells, in source order.
CellsOf(row) == SelectSeq(row.children, LAMBDA n : n.tag \in {"th", "td"})

\* C26: the decoded Table has one row per row of the table, and the cells
\* of each decoded row are the cells of the row, <th> and <td> alike, in
\* source order.
C26_HeaderAndBodyCells ==
    (tdoc \in TableBodies /\ tpc \in {"decoded", "decodeThrew"}) =>
        /\ tpc = "decoded"
        /\ tout.type = "Table"
        /\ LET rows == RowsOf(tdoc.children[1])
           IN  /\ Len(tout.rows) = Len(rows)
               /\ \A r \in 1..Len(rows) :
                     /\ tout.rows[r].type = "TableRow"
                     /\ Len(tout.rows[r].cells) = Len(CellsOf(rows[r]))
                     /\ \A c \in 1..Len(CellsOf(rows[r])) :
                           tout.rows[r].cells[c] =
                               TableCell(<< Text(textContent(CellsOf(rows[r])[c].children)) >>)

(***************************************************************************)
(* Properties of datatables                                                *)
(***************************************************************************)

\* The header cells and the body rows of the table of a Datatable element.
HeaderOf(elem) == querySelectorAll(querySelectorAll(elem.children, "thead"), "th")
BodyRowsOf(elem) ==
    LET trs == querySelectorAll(querySelectorAll(elem.children, "tbody"), "tr")
    IN  [r \in 1..Len(trs) |-> querySelectorAll(trs[r].children, "td")]

\* The number of columns: of the header, or of the widest row without one.
WidthOf(elem) ==
    IF Len(HeaderOf(elem)) > 0 THEN Len(HeaderOf(elem))
    ELSE LET rows == BodyRowsOf(elem)
         IN  IF Len(rows) = 0 THEN 0
             ELSE Len(rows[CHOOSE r \in 1..Len(rows) :
                               \A q \in 1..Len(rows) : Len(rows[q]) <= Len(rows[r])])

\* C27: decoding a Datatable element does not raise; each column is named by
\* its header cell when there is a header row and by its index (A, B, ...)
\* otherwise; the values of a column are the cells of the body rows, top to
\* bottom, with or without a header row.
C27_DatatableColumns ==
    (tdoc \in DatatableBodies /\ tpc \in {"decoded", "decodeThrew"}) =>
        /\ tpc = "decoded"
        /\ tout.type = "Datatable"
        /\ LET elem == tdoc.children[1]
               rows == BodyRowsOf(elem)
           IN  /\ Len(tout.columns) = WidthOf(elem)
               /\ \A c \in 1..WidthOf(elem) :
                     /\ tout.columns[c].name =
                           (IF Len(HeaderOf(elem)) > 0
                            THEN textContent(HeaderOf(elem)[c].children)
                            ELSE columnIndexToName(c - 1))
                     /\ tout.columns[c].values =
                           [r \in 1..Len(rows) |-> textContent(rows[r][c].children)]

(***************************************************************************)
(* Properties of authors                                                   *)
(***************************************************************************)

\* Bound of the authors of one list.
MaxAuthors == 2

\* The persons: with every combination of name, given names and family
\* names and no affiliations; with a name and none, one or two affiliations,
\* named, unnamed, repeated, and named like a property of every object.
NamedPersons ==
    {Person(n, g, f, None) :
        n \in {undefined, "", "N"},
        g \in {<< >>, << "G" >>, << "G", "H" >>},
        f \in {<< >>, << "F" >>, << "F", "K" >>}}

AffiliationLists ==
    LET orgs == {Organization(n) : n \in {undefined, "", "a", "b", "constructor"}}
    IN  {<< >>} \cup UNION {[1..n -> orgs] : n \in 1..2}

AffiliatedPersons == {Person("N", << >>, << >>, Some(a)) : a \in AffiliationLists}

Authors == NamedPersons \cup AffiliatedPersons \cup {Organization("a")}

NextAuthors ==
    \/ tpc = "idle" /\ \E authors \in UNION {[1..n -> Authors] : n \in 1..MaxAuthors} :
                          EncodeAuthors(authors)
    \/ TripReturn

SpecAuthors == InitHtml /\ [][NextAuthors]_vars

\* The names of the organizations, each once, in order of first occurrence.
RECURSIVE FirstOccurrences(_, _)
FirstOccurrences(affiliations, seen) ==
    IF Len(affiliations) = 0 THEN << >>
    ELSE LET name == Head(affiliations).name
         IN  IF name = undefined \/ name \in seen
             THEN FirstOccurrences(Tail(affiliations), seen)
             ELSE << name >> \o FirstOccurrences(Tail(affiliations), seen \cup {name})

IndexOfName(names, name) == CHOOSE i \in 1..Len(names) : names[i] = name

\* The element of author i and the links it holds.
AuthorElem(i) == tdoc.children[1].children[i]
LinksOf(elem) ==
    LET spans == SelectSeq(elem.children,
                           LAMBDA e : e.tag = "span" /\ Attr(e, "itemprop") = "affiliations")
    IN  IF Len(spans) = 0 THEN << >> ELSE spans[1].children

\* C28: the organizations of the Person authors are indexed by name in
\* order of first occurrence: the K distinct names have the entries 1..K
\* with the itemids '#author-organization-1..K', and the links of an author
\* are those to the entries named like its affiliations, in their order.
C28_OrganizationsIndexedByName ==
    (tnode.type = "Authors" /\ tpc \in {"encoded", "threw"}) =>
        LET names == FirstOccurrences(allAffiliations(tnode.authors), {})
            listed == IF Len(tdoc.children) > 1 THEN tdoc.children[2].children ELSE << >>
        IN  /\ tpc = "encoded"
            /\ Len(listed) = Len(names)
            /\ \A k \in 1..Len(names) :
                  /\ Attr(listed[k], "itemid") = "#author-organization-" \o ToString(k)
                  /\ textContent(listed[k].children) = names[k]
            /\ \A i \in 1..Len(tnode.authors) :
                  (tnode.authors[i].type = "Person" /\ tnode.authors[i].affiliations # None) =>
                      LET named == SelectSeq(Get(tnode.authors[i].affiliations),
                                             LAMBDA o : o.name # undefined)
                          links == LinksOf(AuthorElem(i))
                      IN  /\ Len(links) = Len(named)
                          /\ \A j \in 1..Len(named) :
                                Attr(links[j], "href") =
                                    "#author-organization-"
                                        \o ToString(IndexOfName(names, named[j].name))

\* The name shown for author i: the text of the <span>, the content of the
\* <meta>.
DisplayName(i) ==
    LET e == AuthorElem(i).children[1]
    IN  IF e.tag = "span" THEN textContent(e.children) ELSE Attr(e, "content")

\* C29: the display name of a person is the name when it is defined; else
\* the given names followed by the family names, joined by spaces, when
\* there are both; else the family names joined by spaces when there are
\* some; else 'Anonymous', also when there are given names only.
C29_DisplayName ==
    (tnode.type = "Authors" /\ tpc = "encoded") =>
        \A i \in 1..Len(tnode.authors) :
            tnode.authors[i].type = "Person" =>
                LET p == tnode.authors[i]
                IN  DisplayName(i) =
                        (IF p.name # undefined THEN p.name
                         ELSE IF p.givenNames # << >> /\ p.familyNames # << >>
                         THEN joinSpaces(p.givenNames \o p.familyNames)
                         ELSE IF p.familyNames # << >> THEN joinSpaces(p.familyNames)
                         ELSE "Anonymous")

\* Given names without family names and without name: 'Anonymous'; both
\* lists: all the names.
C29_Witness ==
    /\ tpc = "encoded"
    /\ tnode.type = "Authors"
    /\ tnode.authors = << Person(undefined, << "G", "H" >>, << >>, None),
                          Person(undefined, << "G", "H" >>, << "F", "K" >>, None) >>
    /\ DisplayName(1) = "Anonymous"
    /\ DisplayName(2) = "G H F K"

(***************************************************************************)
(* Properties of the PDF encode                                            *)
(***************************************************************************)

SpecPdf == InitHtml /\ [][NextPdf]_vars

\* C30: when an encode call of the PDF codec has completed, with a file or
\* with an error, the page it opened is closed.
C30_PageClosedAtCompletion ==
    ppc \in {"returned", "rejected"} => ppage \notin openPages


====
